---- MODULE Spec2Model ----
(***************************************************************************)
(* Verification model of the indexed allocator (mrshurik/indexed-allocator) *)
(*                                                                         *)
(*   ArrayArena      single-threaded slab arena        (ArrayArena.h)      *)
(*   ArrayArenaMT    thread-safe arena, LockFreeSList  (ArrayArenaMT.h)    *)
(*   SingleArenaConfig / SingleArenaConfigUniversal    handle <-> address  *)
(*                                                                         *)
(* Integer widths are scaled down so that wrap-around is reachable by the  *)
(* model checker: uint16_t is Uint16Bits wide and uint32_t twice that.     *)
(* Everything else is the arithmetic of the source.                        *)
(***************************************************************************)
EXTENDS Integers, FiniteSets, Sequences, TLC

\* ------------------------------------------------------------------ bounds
\* width of uint16_t in the model (the source's is 16)
Uint16Bits == 3
\* largest capacity passed to the constructor / setCapacity (besides the limit)
MaxCapacity == 3
\* size in bytes of the caller-provided buffer handed to BufAlloc
kBufSize == 12
\* number of threads sharing the ArrayArenaMT
NumThreads == 2

\* ------------------------------------------------------------------ types
Uint32Bits == 2 * Uint16Bits

IndexTypes == {"uint16_t", "uint32_t"}

\* kBits = sizeof(IndexType) * 8
kBits(Index) == IF Index = "uint16_t" THEN Uint16Bits ELSE Uint32Bits

\* sizeof(Index) in bytes
SizeofIndex(Index) == IF Index = "uint16_t" THEN 2 ELSE 4

\* number of values of the Index type: arithmetic on Index is modulo this
IndexMod(Index) == 2 ^ kBits(Index)

\* the capacity limit of setCapacity: 1u << (sizeof(Index) * 8 - 1)
CapacityLimit(Index) == 2 ^ (kBits(Index) - 1)

\* the null pointer
NULL == 0

\* address of the buffer the buffer source hands out (BufAlloc::m_bufBegin)
kBufBegin == 64

\* the element sizes (sizeof(Type)) callers allocate with
TypeSizes(Index) == {SizeofIndex(Index), 2 * SizeofIndex(Index)}

\* addresses of the Index-sized words of the buffer
BufWords == {kBufBegin + 2 * i : i \in 0 .. (kBufSize \div 2)}

\* content of a word the allocator has not written since the caller owned it
Dirty == 0 - 1

\* ------------------------------------------------------------------ state
VARIABLES
    arena,                  \* the arena class the program uses; a program that puts
                            \* the two classes side by side: the one its next call is on
    \* ---- ArrayArena<Index, BufAlloc>
    Index,                  \* the Index template argument
    m_capacity,
    m_elementSizeInIndex,
    m_doDelete,
    m_nextFree,
    m_allocatedCount,
    m_usedCapacity,
    m_ptr,                  \* BufAlloc::m_ptr, begin()
    mem,                    \* the buffer: word address -> Index value or Dirty
    \* ---- the caller of the arena
    outstanding,            \* handles the caller holds (allocated, not freed)
    abandoned,              \* handles deallocated while deletion was off, since the last reset
    lastCall,               \* the last call: op, arg, result, and the state before it
    \* ---- ArrayArenaMT<uint16_t, NewAlloc>
    mt_capacity,
    mt_elementSizeInIndex,
    mt_doDelete,
    mt_isAllocError,
    mt_allocMutex,          \* the thread holding m_allocMutex, or NoThread
    mt_head,                \* m_freeList.m_head, a DoubleIndex
    mt_usedCapacity,
    mt_ptr,                 \* NewAlloc::m_memBlock.get(), begin()
    mt_mem,                 \* the buffer
    \* ---- the threads using the MT arena
    pc,                     \* where each thread is in allocate / deallocate
    headD,                  \* pull / push: the local headD
    futureHead,             \* pull: the local futureHead
    futureCapacity,         \* allocate: the local futureCapacity
    free,                   \* push: the argument free
    freeSlot,               \* push: void* freeSlot
    headChanged,            \* a compare-exchange has succeeded since the thread loaded headD
    held,                   \* handles each thread holds: handle -> number of times
    mt_lastCall,            \* the last call if it was setCapacity: argument, result, state before
    mt_abandoned,           \* handles deallocated while deletion was off, since the last reset
    callsLeft,              \* the calls each thread has still to make, or Unlimited
    \* ---- the ArenaConfig of the program's Pointer class, and one Pointer
    Config,                 \* the ArenaConfig class, or NoConfig
    kObjectSize,            \* template argument of SingleArenaConfigUniversal
    kAssignContainerFollowingAllocator,   \* the static constexpr bool of the config
    stackTop,               \* ConfigStore::stackTop
    container,              \* ConfigStore::container
    ref,                    \* the address the Pointer was made from by pointer_to
    m_index,                \* Pointer::m_index
    element,                \* the address operator-> returned
    pointerOp,              \* the last operation on the Pointer
    \* ---- the Allocator of a container
    rebound                 \* the type the Allocator was last rebound to, the allocator
                            \* class selected, and the blocks that one holds on the heap

stVars == <<Index, m_capacity, m_elementSizeInIndex, m_doDelete, m_nextFree,
            m_allocatedCount, m_usedCapacity, m_ptr, mem, outstanding, abandoned,
            lastCall>>

mtVars == <<mt_capacity, mt_elementSizeInIndex, mt_doDelete, mt_isAllocError,
            mt_allocMutex, mt_head, mt_usedCapacity, mt_ptr, mt_mem,
            pc, headD, futureHead, futureCapacity, free, freeSlot, headChanged, held,
            mt_lastCall, mt_abandoned, callsLeft>>

cfgVars == <<Config, kObjectSize, kAssignContainerFollowingAllocator, stackTop, container,
             ref, m_index, element, pointerOp, rebound>>

vars == <<arena, stVars, mtVars, cfgVars>>

\* the next call is on the ArrayArena / on the ArrayArenaMT
TurnST == arena \in {"ArrayArena", "sideBySide_ArrayArena"}

TurnMT == arena \in {"ArrayArenaMT", "sideBySide_ArrayArenaMT"}

\* a side-by-side program repeats on its ArrayArenaMT each call it has made on
\* its ArrayArena, and goes on once that call has returned
AfterST == IF arena = "sideBySide_ArrayArena" THEN "sideBySide_ArrayArenaMT" ELSE arena

AfterMT ==
    IF arena = "sideBySide_ArrayArenaMT" /\ \A t \in DOMAIN pc : pc'[t] = "idle"
      THEN "sideBySide_ArrayArena" ELSE arena

\* ------------------------------------------------------------------ ArrayArena
begin == m_ptr

elementSize == m_elementSizeInIndex * SizeofIndex(Index)

\* void* getElementInt(Index index, size_t elementSize)
getElementInt(index, elemSize) == begin + elemSize * (index - 1)

\* the assertion of getElementInt
getElementIntAssert(index) == index > 0 /\ index <= m_usedCapacity

getElement(index) == getElementInt(index, elementSize)

\* uint32_t(x)
Uint32(x) == x % (2 ^ Uint32Bits)

\* uint16_t(x)
Uint16(x) == x % (2 ^ Uint16Bits)

\* Index pointer_to(const void* ptr)
pointer_to_zeroBased(ptr) ==
    LET offset == ptr - begin
    IN  (Uint32(offset \div SizeofIndex(Index)) \div m_elementSizeInIndex) % IndexMod(Index)

pointer_to(ptr) ==
    LET offset == ptr - begin
        pos    == (Uint32(offset \div SizeofIndex(Index)) \div m_elementSizeInIndex)
                      % IndexMod(Index)
    IN  (pos + 1) % IndexMod(Index)

\* the assertion of pointer_to
pointer_toAssert(ptr) ==
    LET offset == ptr - begin
        pos    == (Uint32(offset \div SizeofIndex(Index)) \div m_elementSizeInIndex)
                      % IndexMod(Index)
    IN  elementSize * pos = offset

\* the values *static_cast<Index*>(ptr) can yield
ReadIndex(memory, ptr) ==
    IF memory[ptr] = Dirty THEN 0 .. MaxCapacity ELSE {memory[ptr]}

\* BufAlloc::malloc(bytes) succeeds
MallocOk(bytes) == bytes <= kBufSize

\* the arena's fields before a call, kept with the call
Snapshot ==
    [capacity |-> m_capacity, elementSizeInIndex |-> m_elementSizeInIndex,
     doDelete |-> m_doDelete, nextFree |-> m_nextFree,
     allocatedCount |-> m_allocatedCount, usedCapacity |-> m_usedCapacity,
     ptr |-> m_ptr, outstanding |-> outstanding, abandoned |-> abandoned]

\* a call: op, its argument, "ok" or the error it raised, the Index it returned,
\* the call before it and the state it was made in
Call(op, arg, result, index, prev) ==
    [op |-> op, arg |-> arg, result |-> result, index |-> index, prev |-> prev,
     pre |-> Snapshot]

\* the free list: handles reachable from head by the links stored in memory
RECURSIVE Chain(_, _, _, _, _)
Chain(memory, base, elemSize, head, fuel) ==
    IF head = 0 \/ fuel = 0 THEN <<>>
    ELSE LET a == base + elemSize * (head - 1)
         IN  IF a \notin DOMAIN memory \/ memory[a] = Dirty THEN <<head>>
             ELSE <<head>> \o Chain(memory, base, elemSize, memory[a], fuel - 1)

FreeList == Chain(mem, begin, elementSize, m_nextFree, MaxCapacity + 1)

FreeSet == {FreeList[i] : i \in 1 .. Len(FreeList)}

\* ArrayArena(capacity, enableDelete, alloc)
ArrayArena(IndexT, capacity, enableDel) ==
    /\ Index = IndexT
    /\ m_capacity = capacity
    /\ m_elementSizeInIndex = 0
    /\ m_doDelete = enableDel
    /\ m_nextFree = 0
    /\ m_allocatedCount = 0
    /\ m_usedCapacity = 0
    /\ m_ptr = NULL
    /\ mem = [a \in BufWords |-> Dirty]
    /\ outstanding = {}
    /\ abandoned = {}
    /\ lastCall = Call("construct", capacity, "ok", 0, "none")

\* the arena the single-threaded program constructs
InitST ==
    \E IndexT \in IndexTypes, capacity \in 0 .. MaxCapacity, enableDel \in BOOLEAN :
        ArrayArena(IndexT, capacity, enableDel)

\* void enableDelete(bool enable)
enableDelete(enable) ==
    /\ TurnST
    /\ m_doDelete' = enable
    /\ lastCall' = Call("enableDelete", IF enable THEN 1 ELSE 0, "ok", 0, lastCall.op)
    /\ UNCHANGED <<Index, m_capacity, m_elementSizeInIndex, m_nextFree, m_allocatedCount,
                   m_usedCapacity, m_ptr, mem, outstanding, abandoned>>
    /\ arena' = AfterST /\ UNCHANGED <<mtVars, cfgVars>>

\* the outcome of setCapacity(capacity) on an arena of type Index whose buffer is ptr
setCapacityResult_noLimit(IndexT, ptr, capacity) ==
    IF ptr # NULL THEN "AllocationInProgress" ELSE "ok"

setCapacityResult_ignoresBuffer(IndexT, ptr, capacity) ==
    IF capacity >= CapacityLimit(IndexT) THEN "CapacityTooLarge" ELSE "ok"

setCapacityResult(IndexT, ptr, capacity) ==
    IF capacity >= CapacityLimit(IndexT) THEN "CapacityTooLarge"
    ELSE IF ptr # NULL THEN "AllocationInProgress"
    ELSE "ok"

\* void setCapacity(size_t capacity)
setCapacity(capacity) ==
    /\ TurnST
    /\ m_capacity' = IF setCapacityResult(Index, begin, capacity) = "ok"
                       THEN capacity ELSE m_capacity
    /\ lastCall' = Call("setCapacity", capacity, setCapacityResult(Index, begin, capacity),
                        0, lastCall.op)
    /\ UNCHANGED <<Index, m_elementSizeInIndex, m_doDelete, m_nextFree, m_allocatedCount,
                   m_usedCapacity, m_ptr, mem, outstanding, abandoned>>
    /\ arena' = AfterST /\ UNCHANGED <<mtVars, cfgVars>>

\* the caller takes the slot of a returned handle: its content is the caller's
TakeSlot(memory, base, index, typeSize) ==
    [memory EXCEPT ![base + typeSize * (index - 1)] = Dirty]

\* the values the pop can read as the successor of the head (lines 146-147)
popNext_keepHead(typeSize) == {m_nextFree}

popNext(typeSize) == ReadIndex(mem, getElementInt(m_nextFree, typeSize))

\* allocate: the free list is not empty, pop its head (lines 144-147, 161-162)
allocatePop(typeSize) ==
    /\ m_nextFree # 0
    /\ \E next \in popNext(typeSize) : m_nextFree' = next
    /\ m_allocatedCount' = (m_allocatedCount + 1) % IndexMod(Index)
    /\ outstanding' = outstanding \cup {m_nextFree}
    /\ mem' = TakeSlot(mem, begin, m_nextFree, typeSize)
    /\ lastCall' = Call("allocate", typeSize, "ok", m_nextFree, lastCall.op)
    /\ UNCHANGED <<Index, m_capacity, m_elementSizeInIndex, m_doDelete,
                   m_usedCapacity, m_ptr, abandoned>>

\* no slot is left to bump into (line 149)
isFull_offByOne == m_usedCapacity + 1 >= m_capacity

isFull == m_usedCapacity = m_capacity

\* allocate fails: the capacity is used up, or the buffer source throws
allocateThrows(typeSize) ==
    /\ m_nextFree = 0
    /\ \/ isFull
       \/ ~isFull /\ begin = NULL /\ ~MallocOk(typeSize * m_capacity)
    /\ lastCall' = Call("allocate", typeSize, "OutOfMemory", 0, lastCall.op)
    /\ UNCHANGED <<Index, m_capacity, m_elementSizeInIndex, m_doDelete, m_nextFree,
                   m_allocatedCount, m_usedCapacity, m_ptr, mem, outstanding, abandoned>>

\* the index a bump allocation returns (++m_usedCapacity; index = m_usedCapacity)
bumpIndex_twoSlots == (m_usedCapacity + 2) % IndexMod(Index)

bumpIndex == (m_usedCapacity + 1) % IndexMod(Index)

\* allocate: the free list is empty, take a new slot (lines 149-162)
allocateBump(typeSize) ==
    /\ m_nextFree = 0
    /\ ~isFull
    /\ IF begin = NULL
         THEN /\ MallocOk(typeSize * m_capacity)
              /\ m_ptr' = kBufBegin
              /\ m_elementSizeInIndex' = Uint16(typeSize \div SizeofIndex(Index))
              /\ mem' = [a \in BufWords |-> Dirty]
         ELSE /\ UNCHANGED <<m_ptr, m_elementSizeInIndex>>
              /\ mem' = TakeSlot(mem, begin, bumpIndex, typeSize)
    /\ m_usedCapacity' = bumpIndex
    /\ m_allocatedCount' = (m_allocatedCount + 1) % IndexMod(Index)
    /\ outstanding' = outstanding \cup {bumpIndex}
    /\ lastCall' = Call("allocate", typeSize, "ok", bumpIndex, lastCall.op)
    /\ UNCHANGED <<Index, m_capacity, m_doDelete, m_nextFree, abandoned>>

\* Index allocate(size_t typeSize); the caller keeps to one element size
allocate(typeSize) ==
    /\ TurnST
    /\ elementSize = typeSize \/ elementSize = 0
    /\ \/ allocatePop(typeSize)
       \/ allocateThrows(typeSize)
       \/ allocateBump(typeSize)
    /\ arena' = AfterST /\ UNCHANGED <<mtVars, cfgVars>>

\* void reset(), as a state change
resetFields_keepUsed ==
    /\ m_nextFree' = 0
    /\ m_allocatedCount' = 0
    /\ UNCHANGED m_usedCapacity

resetFields ==
    /\ m_nextFree' = 0
    /\ m_allocatedCount' = 0
    /\ m_usedCapacity' = 0

\* the count deallocate leaves (--m_allocatedCount)
countAfterDeallocate_twice == (m_allocatedCount - 2) % IndexMod(Index)

countAfterDeallocate == (m_allocatedCount - 1) % IndexMod(Index)

\* deallocate puts the slot on the free list (lines 177-179)
pushFree_noLink(index, typeSize) ==
    /\ UNCHANGED mem
    /\ m_nextFree' = index

pushFree(index, typeSize) ==
    /\ mem' = [mem EXCEPT ![getElementInt(index, typeSize)] = m_nextFree]
    /\ m_nextFree' = index

\* void deallocate(Index index, size_t typeSize); index is a handle the caller holds
deallocate(index, typeSize) ==
    /\ TurnST
    /\ index \in outstanding
    /\ typeSize = elementSize
    /\ IF countAfterDeallocate = 0
         THEN resetFields /\ UNCHANGED mem /\ abandoned' = {}
         ELSE /\ m_allocatedCount' = countAfterDeallocate
              /\ IF m_doDelete
                   THEN pushFree(index, typeSize) /\ UNCHANGED abandoned
                   ELSE UNCHANGED <<mem, m_nextFree>> /\ abandoned' = abandoned \cup {index}
              /\ UNCHANGED m_usedCapacity
    /\ outstanding' = outstanding \ {index}
    /\ lastCall' = Call("deallocate", index, "ok", 0, lastCall.op)
    /\ UNCHANGED <<Index, m_capacity, m_elementSizeInIndex, m_doDelete, m_ptr>>
    /\ arena' = AfterST /\ UNCHANGED <<mtVars, cfgVars>>

\* void reset(); the caller gives up every handle it still holds
reset ==
    /\ TurnST
    /\ resetFields
    /\ outstanding' = {}
    /\ abandoned' = {}
    /\ lastCall' = Call("reset", 0, "ok", 0, lastCall.op)
    /\ UNCHANGED <<Index, m_capacity, m_elementSizeInIndex, m_doDelete, m_ptr, mem>>
    /\ arena' = AfterST /\ UNCHANGED <<mtVars, cfgVars>>

\* BufAlloc::free(): the m_ptr it leaves
ptrAfterFree_keepsBuffer == m_ptr

ptrAfterFree == NULL

\* void freeMemory()
freeMemory ==
    /\ TurnST
    /\ m_elementSizeInIndex' = 0
    /\ resetFields
    /\ m_ptr' = ptrAfterFree
    /\ outstanding' = {}
    /\ abandoned' = {}
    /\ lastCall' = Call("freeMemory", 0, "ok", 0, lastCall.op)
    /\ UNCHANGED <<Index, m_capacity, m_doDelete, mem>>
    /\ arena' = AfterST /\ UNCHANGED <<mtVars, cfgVars>>

\* the calls a single-threaded program makes on its ArrayArena
NextST ==
    \/ \E enable \in BOOLEAN : enableDelete(enable)
    \/ \E capacity \in (0 .. MaxCapacity) \cup {CapacityLimit(Index)} : setCapacity(capacity)
    \/ \E typeSize \in TypeSizes(Index) : allocate(typeSize)
    \/ \E index \in outstanding : deallocate(index, elementSize)
    \/ reset
    \/ freeMemory


\* ------------------------------------------------------------------ ArrayArenaMT
Threads == 1 .. NumThreads

NoThread == 0

\* the Index template argument of the MT arena
IndexMT == "uint16_t"

\* sizeof(Type) of the nodes the threads allocate
kTypeSizeMT == SizeofIndex(IndexMT)

\* number of values of DoubleIndex, DoubleWidth<IndexType>::type
DoubleMod == 2 ^ (2 * kBits(IndexMT))

\* IndexType(indexD)
toIndex(indexD) == indexD % IndexMod(IndexMT)

\* toStamp(indexD): indexD >> kBits
toStamp(indexD) == indexD \div IndexMod(IndexMT)

\* toDoubleIndex(index, stamp): (stamp << kBits) | index
toDoubleIndex_noStamp(index, stamp) == index

toDoubleIndex_dropsIndex(index, stamp) == (stamp * IndexMod(IndexMT)) % DoubleMod

toDoubleIndex(index, stamp) == ((stamp * IndexMod(IndexMT)) % DoubleMod) + index

\* ArrayArenaMT::getElementInt(index, elementSize)
getElementIntMT(index, elemSize) == mt_ptr + elemSize * (index - 1)

\* ArrayArenaMT::getElement(index)
getElementMT(index) == getElementIntMT(index, mt_elementSizeInIndex * SizeofIndex(IndexMT))

\* a handle more in the program's hands (counted up to two); any thread may
\* give back a handle another thread has allocated
Take(h, index) ==
    [h EXCEPT ![index] = IF @ >= 1 THEN 2 ELSE 1]

Drop(h, index) ==
    [h EXCEPT ![index] = @ - 1]

NoneHeld == [i \in 1 .. MaxCapacity |-> 0]

\* all threads are outside the arena (the quiescence the non-MT-safe calls need)
Quiescent == \A t \in Threads : pc[t] = "idle"

\* the free list of the MT arena: the handles reachable from m_head
FreeListMT == Chain(mt_mem, mt_ptr, kTypeSizeMT, toIndex(mt_head), MaxCapacity + 1)

FreeSetMT == {FreeListMT[i] : i \in 1 .. Len(FreeListMT)}

\* the free list is a chain of slots that nobody holds or is pushing, and no
\* handle is in two hands
Intact ==
    /\ \A i \in 1 .. MaxCapacity : held[i] < 2
    /\ Cardinality(FreeSetMT) = Len(FreeListMT)
    /\ \A i \in FreeSetMT : /\ i \in 1 .. MaxCapacity
                             /\ held[i] = 0
                             /\ mt_mem[mt_ptr + kTypeSizeMT * (i - 1)] # Dirty
                             /\ \A t \in Threads : free[t] # i

\* the allocations the model follows: all of them while the free list is intact,
\* and once it is corrupted those up to the first handle that is in two hands
\* (handles are given back and the arena is reconfigured only while it is intact)
Followed ==
    \/ Intact
    \/ \A i \in 1 .. MaxCapacity : held[i] < 2

\* the arena's fields before a call, kept with the call
SnapshotMT ==
    [capacity |-> mt_capacity, elementSizeInIndex |-> mt_elementSizeInIndex,
     doDelete |-> mt_doDelete, isAllocError |-> mt_isAllocError, head |-> mt_head,
     usedCapacity |-> mt_usedCapacity, ptr |-> mt_ptr]

\* a call of setCapacity: its argument, "ok" or the error it raised, the state
\* it was made in; kept until the next call on the arena begins
CallMT(op, arg, result) == [op |-> op, arg |-> arg, result |-> result, pre |-> SnapshotMT]

\* the last call was not setCapacity
NoCall == [op |-> "none", arg |-> 0, result |-> "ok", pre |-> <<>>]

\* a thread that makes calls without end
Unlimited == 0 - 1

\* the calls a thread has left once it has begun one
CallsLeftAfter(n) == IF n = Unlimited THEN Unlimited ELSE n - 1

\* ArrayArenaMT(capacity, enableDelete, alloc)
InitMT ==
    /\ mt_capacity = 0
    /\ mt_elementSizeInIndex = 0
    /\ mt_doDelete = TRUE
    /\ mt_isAllocError = FALSE
    /\ mt_allocMutex = NoThread
    /\ mt_head = 0
    /\ mt_usedCapacity = 0
    /\ mt_ptr = NULL
    /\ mt_mem = [a \in BufWords |-> Dirty]
    /\ pc = [t \in Threads |-> "idle"]
    /\ headD = [t \in Threads |-> 0]
    /\ futureHead = [t \in Threads |-> 0]
    /\ futureCapacity = [t \in Threads |-> 0]
    /\ free = [t \in Threads |-> 0]
    /\ freeSlot = [t \in Threads |-> NULL]
    /\ headChanged = [t \in Threads |-> FALSE]
    /\ held = NoneHeld
    /\ mt_lastCall = NoCall
    /\ mt_abandoned = {}
    /\ callsLeft = [t \in Threads |-> Unlimited]

\* the thread is between its load of m_head and its compare-exchange
InCas(t) == pc[t] \in {"pull_cas", "push_cas"}

\* a thread leaves allocate with index
ReturnIndex(t, index) ==
    /\ pc' = [pc EXCEPT ![t] = "idle"]
    /\ held' = Take(held, index)
    /\ headD' = [headD EXCEPT ![t] = 0]
    /\ futureHead' = [futureHead EXCEPT ![t] = 0]
    /\ futureCapacity' = [futureCapacity EXCEPT ![t] = 0]

\* the values an Index read from a slot can have: what the arena wrote there, or
\* anything when the slot's content is the caller's
ValueRead(word) == IF word = Dirty THEN 0 .. MaxCapacity ELSE {word}

\* where pull goes with the head it has loaded: an empty list makes it return 0
\* and allocate goes on to bump m_usedCapacity (lines 62-65, 230-231)
AfterLoad(indexD) == IF toIndex(indexD) = 0 THEN "bump" ELSE "pull_cas"

\* pull lines 66-67: futureHead = *static_cast<IndexType*>(arena.getElement(head)),
\* read in one step with the load of the head it follows: a head that changes
\* between the two loads makes the compare-exchange fail, short of a stamp coming
\* round, and the stall that matters, between this read and the compare-exchange,
\* is kept
ReadNext(indexD) ==
    IF toIndex(indexD) = 0 THEN 0 ELSE mt_mem[getElementMT(toIndex(indexD))]

\* allocate line 229, pull lines 60-67: DoubleIndex headD = m_head, and futureHead
allocateMT_begin(t) ==
    /\ TurnMT
    /\ pc[t] = "idle"
    /\ Followed
    /\ headD' = [headD EXCEPT ![t] = mt_head]
    /\ futureHead' = [futureHead EXCEPT ![t] = ReadNext(mt_head)]
    /\ pc' = [pc EXCEPT ![t] = AfterLoad(mt_head)]
    /\ UNCHANGED <<mt_capacity, mt_elementSizeInIndex, mt_doDelete, mt_isAllocError,
                   mt_allocMutex, mt_head, mt_usedCapacity, mt_ptr, mt_mem,
                   futureCapacity, free, freeSlot, held>>
    /\ headChanged' = [headChanged EXCEPT ![t] = FALSE]
    /\ mt_lastCall' = NoCall
    /\ UNCHANGED mt_abandoned
    /\ callsLeft[t] # 0
    /\ callsLeft' = [callsLeft EXCEPT ![t] = CallsLeftAfter(@)]
    /\ arena' = AfterMT /\ UNCHANGED <<stVars, cfgVars>>

\* pull lines 68-70: the compare_exchange_strong succeeds, allocate returns head
pull_cas_ok(t) ==
    /\ TurnMT
    /\ pc[t] = "pull_cas"
    /\ mt_head = headD[t]
    /\ Followed
    /\ \E next \in ValueRead(futureHead[t]) :
          mt_head' = toDoubleIndex(next, toStamp(headD[t]) + 1)
    /\ mt_mem' = TakeSlot(mt_mem, mt_ptr, toIndex(headD[t]), kTypeSizeMT)
    /\ ReturnIndex(t, toIndex(headD[t]))
    /\ UNCHANGED <<mt_capacity, mt_elementSizeInIndex, mt_doDelete, mt_isAllocError,
                   mt_allocMutex, mt_usedCapacity, mt_ptr, free, freeSlot>>
    /\ headChanged' = [u \in Threads |-> u # t /\ InCas(u)]
    /\ UNCHANGED mt_lastCall
    /\ UNCHANGED mt_abandoned
    /\ UNCHANGED callsLeft
    /\ arena' = AfterMT /\ UNCHANGED <<stVars, cfgVars>>

\* m_head.compare_exchange_strong(headD, futureHeadD) has failed: the headD it leaves
headAfterFailedCas_stale(t) == headD[t]

headAfterFailedCas(t) == mt_head

\* pull lines 62-69: the compare_exchange_strong fails and reloads headD, and the
\* loop reads futureHead again
pull_cas_fail(t) ==
    /\ TurnMT
    /\ pc[t] = "pull_cas"
    /\ mt_head # headD[t]
    /\ Followed
    /\ headD' = [headD EXCEPT ![t] = headAfterFailedCas(t)]
    /\ futureHead' = [futureHead EXCEPT ![t] = ReadNext(headAfterFailedCas(t))]
    /\ pc' = [pc EXCEPT ![t] = AfterLoad(headAfterFailedCas(t))]
    /\ UNCHANGED <<mt_capacity, mt_elementSizeInIndex, mt_doDelete, mt_isAllocError,
                   mt_allocMutex, mt_head, mt_usedCapacity, mt_ptr, mt_mem,
                   futureCapacity, free, freeSlot, held>>
    /\ headChanged' = [headChanged EXCEPT ![t] = FALSE]
    /\ UNCHANGED mt_lastCall
    /\ UNCHANGED mt_abandoned
    /\ UNCHANGED callsLeft
    /\ arena' = AfterMT /\ UNCHANGED <<stVars, cfgVars>>

\* allocate lines 231-235: Index futureCapacity = ++m_usedCapacity, and the
\* throw when futureCapacity > m_capacity
allocateMT_bump(t) ==
    /\ TurnMT
    /\ pc[t] = "bump"
    /\ Followed
    /\ mt_usedCapacity' = (mt_usedCapacity + 1) % IndexMod(IndexMT)
    /\ futureCapacity' = [futureCapacity EXCEPT ![t] = mt_usedCapacity']
    /\ headD' = [headD EXCEPT ![t] = 0]
    /\ pc' = [pc EXCEPT ![t] = IF mt_usedCapacity' > mt_capacity THEN "rollback" ELSE "check"]
    /\ UNCHANGED <<mt_capacity, mt_elementSizeInIndex, mt_doDelete, mt_isAllocError,
                   mt_allocMutex, mt_head, mt_ptr, mt_mem, futureHead, free, freeSlot, held>>
    /\ UNCHANGED headChanged
    /\ UNCHANGED mt_lastCall
    /\ UNCHANGED mt_abandoned
    /\ UNCHANGED callsLeft
    /\ arena' = AfterMT /\ UNCHANGED <<stVars, cfgVars>>

\* allocate lines 236-238: begin() == nullptr, go to allocateBuffer
allocateMT_needBuffer(t) ==
    /\ TurnMT
    /\ pc[t] = "check"
    /\ mt_ptr = NULL
    /\ Followed
    /\ pc' = [pc EXCEPT ![t] = "lock"]
    /\ UNCHANGED <<mt_capacity, mt_elementSizeInIndex, mt_doDelete, mt_isAllocError,
                   mt_allocMutex, mt_head, mt_usedCapacity, mt_ptr, mt_mem,
                   headD, futureHead, futureCapacity, free, freeSlot, held>>
    /\ UNCHANGED headChanged
    /\ UNCHANGED mt_lastCall
    /\ UNCHANGED mt_abandoned
    /\ UNCHANGED callsLeft
    /\ arena' = AfterMT /\ UNCHANGED <<stVars, cfgVars>>

\* allocate lines 236, 243-245: the buffer is there, return futureCapacity
allocateMT_return(t) ==
    /\ TurnMT
    /\ pc[t] = "check"
    /\ mt_ptr # NULL
    /\ Followed
    /\ mt_mem' = TakeSlot(mt_mem, mt_ptr, futureCapacity[t], kTypeSizeMT)
    /\ ReturnIndex(t, futureCapacity[t])
    /\ UNCHANGED <<mt_capacity, mt_elementSizeInIndex, mt_doDelete, mt_isAllocError,
                   mt_allocMutex, mt_head, mt_usedCapacity, mt_ptr, free, freeSlot>>
    /\ UNCHANGED headChanged
    /\ UNCHANGED mt_lastCall
    /\ UNCHANGED mt_abandoned
    /\ UNCHANGED callsLeft
    /\ arena' = AfterMT /\ UNCHANGED <<stVars, cfgVars>>

\* allocateBuffer line 301, under the mutex: begin() != nullptr
bufferPresent_unchecked == FALSE

bufferPresent == mt_ptr # NULL

\* allocateBuffer lines 296-299: lock; m_isAllocError is set, throw
allocateBuffer_error(t) ==
    /\ TurnMT
    /\ pc[t] = "lock"
    /\ mt_allocMutex = NoThread
    /\ mt_isAllocError
    /\ Followed
    /\ pc' = [pc EXCEPT ![t] = "rollback"]
    /\ UNCHANGED <<mt_capacity, mt_elementSizeInIndex, mt_doDelete, mt_isAllocError,
                   mt_allocMutex, mt_head, mt_usedCapacity, mt_ptr, mt_mem,
                   headD, futureHead, futureCapacity, free, freeSlot, held>>
    /\ UNCHANGED headChanged
    /\ UNCHANGED mt_lastCall
    /\ UNCHANGED mt_abandoned
    /\ UNCHANGED callsLeft
    /\ arena' = AfterMT /\ UNCHANGED <<stVars, cfgVars>>

\* allocateBuffer lines 296-302: lock; another thread has acquired the buffer, return
allocateBuffer_done(t) ==
    /\ TurnMT
    /\ pc[t] = "lock"
    /\ mt_allocMutex = NoThread
    /\ ~mt_isAllocError
    /\ bufferPresent
    /\ Followed
    /\ mt_mem' = TakeSlot(mt_mem, mt_ptr, futureCapacity[t], kTypeSizeMT)
    /\ ReturnIndex(t, futureCapacity[t])
    /\ UNCHANGED <<mt_capacity, mt_elementSizeInIndex, mt_doDelete, mt_isAllocError,
                   mt_allocMutex, mt_head, mt_usedCapacity, mt_ptr, free, freeSlot>>
    /\ UNCHANGED headChanged
    /\ UNCHANGED mt_lastCall
    /\ UNCHANGED mt_abandoned
    /\ UNCHANGED callsLeft
    /\ arena' = AfterMT /\ UNCHANGED <<stVars, cfgVars>>

\* allocateBuffer lines 296-306: lock; Alloc::malloc succeeds (the mutex stays held)
allocateBuffer_malloc(t) ==
    /\ TurnMT
    /\ pc[t] = "lock"
    /\ mt_allocMutex = NoThread
    /\ ~mt_isAllocError
    /\ ~bufferPresent
    /\ Followed
    /\ mt_allocMutex' = t
    /\ mt_ptr' = kBufBegin
    /\ mt_mem' = [a \in BufWords |-> Dirty]
    /\ pc' = [pc EXCEPT ![t] = "set_size"]
    /\ UNCHANGED <<mt_capacity, mt_elementSizeInIndex, mt_doDelete, mt_isAllocError,
                   mt_head, mt_usedCapacity,
                   headD, futureHead, futureCapacity, free, freeSlot, held>>
    /\ UNCHANGED headChanged
    /\ UNCHANGED mt_lastCall
    /\ UNCHANGED mt_abandoned
    /\ UNCHANGED callsLeft
    /\ arena' = AfterMT /\ UNCHANGED <<stVars, cfgVars>>

\* allocateBuffer lines 307-309: what the catch block leaves in m_isAllocError
isAllocErrorAfterThrow_notLatched == FALSE

isAllocErrorAfterThrow == TRUE

\* allocateBuffer lines 305-310: lock; Alloc::malloc throws, the error is latched
allocateBuffer_mallocThrows(t) ==
    /\ TurnMT
    /\ pc[t] = "lock"
    /\ mt_allocMutex = NoThread
    /\ ~mt_isAllocError
    /\ ~bufferPresent
    /\ Followed
    /\ mt_isAllocError' = isAllocErrorAfterThrow
    /\ pc' = [pc EXCEPT ![t] = "rollback"]
    /\ UNCHANGED <<mt_capacity, mt_elementSizeInIndex, mt_doDelete,
                   mt_allocMutex, mt_head, mt_usedCapacity, mt_ptr, mt_mem,
                   headD, futureHead, futureCapacity, free, freeSlot, held>>
    /\ UNCHANGED headChanged
    /\ UNCHANGED mt_lastCall
    /\ UNCHANGED mt_abandoned
    /\ UNCHANGED callsLeft
    /\ arena' = AfterMT /\ UNCHANGED <<stVars, cfgVars>>

\* allocateBuffer lines 311-314: m_elementSizeInIndex is set, unlock, allocate returns
allocateBuffer_setSize(t) ==
    /\ TurnMT
    /\ pc[t] = "set_size"
    /\ Followed
    /\ mt_elementSizeInIndex' = Uint16(kTypeSizeMT \div SizeofIndex(IndexMT))
    /\ mt_allocMutex' = NoThread
    /\ UNCHANGED mt_mem
    /\ ReturnIndex(t, futureCapacity[t])
    /\ UNCHANGED <<mt_capacity, mt_doDelete, mt_isAllocError,
                   mt_head, mt_usedCapacity, mt_ptr, free, freeSlot>>
    /\ UNCHANGED headChanged
    /\ UNCHANGED mt_lastCall
    /\ UNCHANGED mt_abandoned
    /\ UNCHANGED callsLeft
    /\ arena' = AfterMT /\ UNCHANGED <<stVars, cfgVars>>

\* allocate line 240: the value --m_usedCapacity leaves
usedCapacityAfterRollback_kept == mt_usedCapacity % IndexMod(IndexMT)

usedCapacityAfterRollback == (mt_usedCapacity - 1) % IndexMod(IndexMT)

\* allocate lines 239-242: --m_usedCapacity; throw
allocateMT_rollback(t) ==
    /\ TurnMT
    /\ pc[t] = "rollback"
    /\ Followed
    /\ mt_usedCapacity' = usedCapacityAfterRollback
    /\ pc' = [pc EXCEPT ![t] = "idle"]
    /\ futureCapacity' = [futureCapacity EXCEPT ![t] = 0]
    /\ UNCHANGED <<mt_capacity, mt_elementSizeInIndex, mt_doDelete, mt_isAllocError,
                   mt_allocMutex, mt_head, mt_ptr, mt_mem, headD, futureHead, free, freeSlot, held>>
    /\ UNCHANGED headChanged
    /\ UNCHANGED mt_lastCall
    /\ UNCHANGED mt_abandoned
    /\ UNCHANGED callsLeft
    /\ arena' = AfterMT /\ UNCHANGED <<stVars, cfgVars>>

\* deallocate lines 253-255 with deletion off: nothing is done
deallocateMT_noDelete(t, index) ==
    /\ TurnMT
    /\ pc[t] = "idle"
    /\ held[index] > 0
    /\ ~mt_doDelete
    /\ Intact
    /\ held' = Drop(held, index)
    /\ UNCHANGED <<mt_capacity, mt_elementSizeInIndex, mt_doDelete, mt_isAllocError,
                   mt_allocMutex, mt_head, mt_usedCapacity, mt_ptr, mt_mem,
                   pc, headD, futureHead, futureCapacity, free, freeSlot>>
    /\ UNCHANGED headChanged
    /\ mt_lastCall' = NoCall
    /\ mt_abandoned' = mt_abandoned \cup {index}
    /\ callsLeft[t] # 0
    /\ callsLeft' = [callsLeft EXCEPT ![t] = CallsLeftAfter(@)]
    /\ arena' = AfterMT /\ UNCHANGED <<stVars, cfgVars>>

\* deallocate line 254, push lines 76-79: freeSlot = arena.getElement(free),
\* headD = m_head, and the link is written into the slot, which is the caller's
\* until the compare-exchange publishes it
deallocateMT_begin(t, index) ==
    /\ TurnMT
    /\ pc[t] = "idle"
    /\ held[index] > 0
    /\ mt_doDelete
    /\ Intact
    /\ held' = Drop(held, index)
    /\ free' = [free EXCEPT ![t] = index]
    /\ freeSlot' = [freeSlot EXCEPT ![t] = getElementMT(index)]
    /\ headD' = [headD EXCEPT ![t] = mt_head]
    /\ mt_mem' = [mt_mem EXCEPT ![getElementMT(index)] = toIndex(mt_head)]
    /\ pc' = [pc EXCEPT ![t] = "push_cas"]
    /\ UNCHANGED <<mt_capacity, mt_elementSizeInIndex, mt_doDelete, mt_isAllocError,
                   mt_allocMutex, mt_head, mt_usedCapacity, mt_ptr,
                   futureHead, futureCapacity>>
    /\ headChanged' = [headChanged EXCEPT ![t] = FALSE]
    /\ mt_lastCall' = NoCall
    /\ UNCHANGED mt_abandoned
    /\ callsLeft[t] # 0
    /\ callsLeft' = [callsLeft EXCEPT ![t] = CallsLeftAfter(@)]
    /\ arena' = AfterMT /\ UNCHANGED <<stVars, cfgVars>>

\* push lines 80-83: the compare_exchange_strong succeeds
push_cas_ok(t) ==
    /\ TurnMT
    /\ pc[t] = "push_cas"
    /\ mt_head = headD[t]
    /\ Intact
    /\ mt_head' = toDoubleIndex(free[t], toStamp(headD[t]) + 1)
    /\ pc' = [pc EXCEPT ![t] = "idle"]
    /\ headD' = [headD EXCEPT ![t] = 0]
    /\ free' = [free EXCEPT ![t] = 0]
    /\ freeSlot' = [freeSlot EXCEPT ![t] = NULL]
    /\ UNCHANGED <<mt_capacity, mt_elementSizeInIndex, mt_doDelete, mt_isAllocError,
                   mt_allocMutex, mt_usedCapacity, mt_ptr, mt_mem,
                   futureHead, futureCapacity, held>>
    /\ headChanged' = [u \in Threads |-> u # t /\ InCas(u)]
    /\ UNCHANGED mt_lastCall
    /\ UNCHANGED mt_abandoned
    /\ UNCHANGED callsLeft
    /\ arena' = AfterMT /\ UNCHANGED <<stVars, cfgVars>>

\* push lines 78-81: the compare_exchange_strong fails and reloads headD, and the
\* loop writes the link again
push_cas_fail(t) ==
    /\ TurnMT
    /\ pc[t] = "push_cas"
    /\ mt_head # headD[t]
    /\ Intact
    /\ headD' = [headD EXCEPT ![t] = headAfterFailedCas(t)]
    /\ mt_mem' = [mt_mem EXCEPT ![freeSlot[t]] = toIndex(headAfterFailedCas(t))]
    /\ UNCHANGED <<mt_capacity, mt_elementSizeInIndex, mt_doDelete, mt_isAllocError,
                   mt_allocMutex, mt_head, mt_usedCapacity, mt_ptr,
                   pc, futureHead, futureCapacity, free, freeSlot, held>>
    /\ headChanged' = [headChanged EXCEPT ![t] = FALSE]
    /\ UNCHANGED mt_lastCall
    /\ UNCHANGED mt_abandoned
    /\ UNCHANGED callsLeft
    /\ arena' = AfterMT /\ UNCHANGED <<stVars, cfgVars>>

\* void enableDelete(bool enable)
enableDeleteMT(enable) ==
    /\ TurnMT
    /\ Quiescent
    /\ Intact
    /\ mt_doDelete' = enable
    /\ UNCHANGED <<mt_capacity, mt_elementSizeInIndex, mt_isAllocError,
                   mt_allocMutex, mt_head, mt_usedCapacity, mt_ptr, mt_mem,
                   pc, headD, futureHead, futureCapacity, free, freeSlot, held>>
    /\ UNCHANGED headChanged
    /\ mt_lastCall' = NoCall
    /\ UNCHANGED mt_abandoned
    /\ UNCHANGED callsLeft
    /\ arena' = AfterMT /\ UNCHANGED <<stVars, cfgVars>>

\* void setCapacity(size_t capacity): not MT-safe, called at quiescence
setCapacityMT(capacity) ==
    /\ TurnMT
    /\ Quiescent
    /\ Intact
    /\ mt_capacity' = IF setCapacityResult(IndexMT, mt_ptr, capacity) = "ok"
                        THEN capacity ELSE mt_capacity
    /\ UNCHANGED <<mt_elementSizeInIndex, mt_doDelete, mt_isAllocError,
                   mt_allocMutex, mt_head, mt_usedCapacity, mt_ptr, mt_mem,
                   pc, headD, futureHead, futureCapacity, free, freeSlot, held>>
    /\ UNCHANGED headChanged
    /\ mt_lastCall' = CallMT("setCapacity", capacity,
                           setCapacityResult(IndexMT, mt_ptr, capacity))
    /\ UNCHANGED mt_abandoned
    /\ UNCHANGED callsLeft
    /\ arena' = AfterMT /\ UNCHANGED <<stVars, cfgVars>>

\* void reset(): not MT-safe, called at quiescence; the threads give up their
\* handles, and no slot is read again before it has been allocated and pushed
resetMT ==
    /\ TurnMT
    /\ Quiescent
    /\ Intact
    /\ mt_head' = 0
    /\ mt_usedCapacity' = 0
    /\ held' = NoneHeld
    /\ mt_mem' = [a \in BufWords |-> Dirty]
    /\ UNCHANGED <<mt_capacity, mt_elementSizeInIndex, mt_doDelete, mt_isAllocError,
                   mt_allocMutex, mt_ptr,
                   pc, headD, futureHead, futureCapacity, free, freeSlot>>
    /\ UNCHANGED headChanged
    /\ mt_lastCall' = NoCall
    /\ mt_abandoned' = {}
    /\ UNCHANGED callsLeft
    /\ arena' = AfterMT /\ UNCHANGED <<stVars, cfgVars>>

\* void freeMemory(): not MT-safe, called at quiescence
freeMemoryMT ==
    /\ TurnMT
    /\ Quiescent
    /\ Intact
    /\ mt_ptr' = NULL
    /\ mt_elementSizeInIndex' = 0
    /\ mt_isAllocError' = FALSE
    /\ mt_head' = 0
    /\ mt_usedCapacity' = 0
    /\ held' = NoneHeld
    /\ mt_mem' = [a \in BufWords |-> Dirty]
    /\ UNCHANGED <<mt_capacity, mt_doDelete, mt_allocMutex,
                   pc, headD, futureHead, futureCapacity, free, freeSlot>>
    /\ UNCHANGED headChanged
    /\ mt_lastCall' = NoCall
    /\ mt_abandoned' = {}
    /\ UNCHANGED callsLeft
    /\ arena' = AfterMT /\ UNCHANGED <<stVars, cfgVars>>

\* the steps of allocate
allocateMT(t) ==
    \/ allocateMT_begin(t)
    \/ pull_cas_ok(t)
    \/ pull_cas_fail(t)
    \/ allocateMT_bump(t)
    \/ allocateMT_needBuffer(t)
    \/ allocateMT_return(t)
    \/ allocateBuffer_error(t)
    \/ allocateBuffer_done(t)
    \/ allocateBuffer_malloc(t)
    \/ allocateBuffer_mallocThrows(t)
    \/ allocateBuffer_setSize(t)
    \/ allocateMT_rollback(t)

\* the steps of deallocate
deallocateMT(t) ==
    \/ \E index \in 1 .. MaxCapacity :
          \/ deallocateMT_noDelete(t, index)
          \/ deallocateMT_begin(t, index)
    \/ push_cas_ok(t)
    \/ push_cas_fail(t)

\* the calls that are not MT-safe
configureMT ==
    \/ \E capacity \in {MaxCapacity - 1, MaxCapacity, CapacityLimit(IndexMT)} :
          setCapacityMT(capacity)
    \/ \E enable \in BOOLEAN : enableDeleteMT(enable)
    \/ resetMT
    \/ freeMemoryMT

\* the steps of the threads sharing an ArrayArenaMT
NextMT ==
    \/ \E t \in Threads : allocateMT(t)
    \/ \E t \in Threads : deallocateMT(t)
    \/ configureMT

\* ------------------------------------------------------------------ fair threads
\* the calls each thread of the program makes
MaxCalls == 2

\* the steps of a thread on the free list and the counter of an arena that
\* holds its buffer
ThreadStep(t) ==
    \/ allocateMT_begin(t)
    \/ pull_cas_ok(t)
    \/ pull_cas_fail(t)
    \/ allocateMT_bump(t)
    \/ allocateMT_return(t)
    \/ allocateMT_rollback(t)
    \/ \E index \in 1 .. MaxCapacity : deallocateMT_begin(t, index)
    \/ push_cas_ok(t)
    \/ push_cas_fail(t)

\* a thread that is inside a call is scheduled again
NextFair == \E t \in Threads : ThreadStep(t)

Fairness == \A t \in Threads : WF_vars(pc[t] # "idle" /\ ThreadStep(t))

\* ------------------------------------------------------------------ side by side
\* the thread of a single-threaded program
caller == CHOOSE t \in Threads : \A u \in Threads : t <= u

\* the last deallocate on the ArrayArena brought m_allocatedCount to 0: the arena
\* has reset itself (ArrayArena::deallocate lines 171-175)
AutoResetFired == lastCall.op = "deallocate" /\ lastCall.pre.allocatedCount = 1

\* the program's next call on its ArrayArena<uint16_t>; once that arena has reset
\* itself the program resets both arenas before it goes on
sideBySide_call ==
    \/ reset
    \/ freeMemory
    \/ ~AutoResetFired /\ \E enable \in BOOLEAN : enableDelete(enable)
    \/ ~AutoResetFired /\ \E capacity \in (0 .. MaxCapacity) \cup {CapacityLimit(Index)} :
                              setCapacity(capacity)
    \/ ~AutoResetFired /\ allocate(kTypeSizeMT)
    \/ ~AutoResetFired /\ \E index \in outstanding : deallocate(index, elementSize)

\* the same call on its ArrayArenaMT<uint16_t>, made by the one thread; the
\* buffer source has room for every request of the program, as BufAlloc has
sideBySide_repeat ==
    \/ lastCall.op = "reset" /\ resetMT
    \/ lastCall.op = "freeMemory" /\ freeMemoryMT
    \/ lastCall.op = "enableDelete" /\ enableDeleteMT(lastCall.arg = 1)
    \/ lastCall.op = "setCapacity" /\ setCapacityMT(lastCall.arg)
    \/ lastCall.op = "allocate" /\ allocateMT_begin(caller)
    \/ pull_cas_ok(caller)
    \/ allocateMT_bump(caller)
    \/ allocateMT_needBuffer(caller)
    \/ allocateMT_return(caller)
    \/ allocateBuffer_malloc(caller)
    \/ allocateBuffer_setSize(caller)
    \/ allocateMT_rollback(caller)
    \/ lastCall.op = "deallocate" /\ deallocateMT_noDelete(caller, lastCall.arg)
    \/ lastCall.op = "deallocate" /\ deallocateMT_begin(caller, lastCall.arg)
    \/ push_cas_ok(caller)

NextSideBySide ==
    \/ sideBySide_call
    \/ sideBySide_repeat

\* ------------------------------------------------------------------ ArenaConfig
\* the largest sizeof(Type) / sizeof(Index) of the nodes kept in an arena
MaxElementSize == 3

\* no ArenaConfig: the program uses the arena directly
NoConfig == "none"

Configs == {"SingleArenaConfig", "SingleArenaConfigUniversal"}

\* template argument kNodeAlignment, by default sizeof(IndexType)
kNodeAlignment == SizeofIndex(Index)

\* kOnStackFlag = 1u << (sizeof(IndexType) * 8 - 1)
kOnStackFlag == 2 ^ (kBits(Index) - 1)

\* kContainerFlag = 1u << (sizeof(IndexType) * 8 - 2)
kContainerFlag == 2 ^ (kBits(Index) - 2)

\* kMaxStackSize = 2 * 1024 * 1024, scaled with the widths: its quanta overflow
\* the payload of a uint16_t stack handle and fit that of a uint32_t one
kMaxStackSize == 2 ^ (Uint16Bits + 2)

\* the 256 of the container branch for kObjectSize == 0, scaled with the widths:
\* it fits the payload of a uint16_t container handle
kBodyLimit == 2 ^ (Uint16Bits - 2)

\* the stack top the program registers, far above the arena's buffer
kStackTop == 2 ^ (2 * Uint32Bits)

\* the stack top of a thread one of whose frames holds the arena's buffer: the
\* buffer lies just below it, inside the stack window
StackTopOverArena == m_ptr + elementSize * m_capacity + 2 * kNodeAlignment

\* the container object the program registers, below the arena's buffer
kContainer == kBufBegin - 2 ^ Uint16Bits

\* IndexType(x)
IndexType(x) == x % IndexMod(Index)

\* (index & flag) != 0, flag a power of two
HasFlag(index, flag) == (index \div flag) % 2 = 1

\* index ^ flag
Xor(index, flag) == IF HasFlag(index, flag) THEN index - flag ELSE index + flag

\* index | flag
Or(index, flag) == IF HasFlag(index, flag) THEN index ELSE index + flag

\* char* end()
end == begin + elementSize * m_capacity

\* SingleArenaConfig::getElement(IndexType index)
SingleArenaConfig_getElement_noAlignment(index) ==
    IF HasFlag(index, kOnStackFlag)
      THEN stackTop - Xor(index, kOnStackFlag)
      ELSE getElement(index)

SingleArenaConfig_getElement(index) ==
    IF HasFlag(index, kOnStackFlag)
      THEN stackTop - kNodeAlignment * Xor(index, kOnStackFlag)
      ELSE getElement(index)

\* SingleArenaConfig::pointer_to(const void* ptr)
SingleArenaConfig_pointer_to(ptr) ==
    LET stackOffset == stackTop - ptr
        offset      == stackOffset \div kNodeAlignment
    IN  IF stackOffset >= 0 /\ stackOffset < kMaxStackSize
          THEN Or(IndexType(offset), kOnStackFlag)
          ELSE pointer_to(ptr)

\* the assertions of the stack branch of pointer_to
StackAssert(ptr) ==
    LET stackOffset == stackTop - ptr
        offset      == stackOffset \div kNodeAlignment
    IN  (stackOffset >= 0 /\ stackOffset < kMaxStackSize)
            => (offset < kOnStackFlag /\ offset * kNodeAlignment = stackOffset)

\* SingleArenaConfigUniversal::getElement(IndexType index)
SingleArenaConfigUniversal_getElement_noOffset(index) ==
    IF ~HasFlag(index, kContainerFlag) /\ ~HasFlag(index, kOnStackFlag)
      THEN getElement(index)
      ELSE IF HasFlag(index, kOnStackFlag)
             THEN stackTop - kNodeAlignment * Xor(index, kOnStackFlag)
             ELSE container

SingleArenaConfigUniversal_getElement(index) ==
    IF ~HasFlag(index, kContainerFlag) /\ ~HasFlag(index, kOnStackFlag)
      THEN getElement(index)
      ELSE IF HasFlag(index, kOnStackFlag)
             THEN stackTop - kNodeAlignment * Xor(index, kOnStackFlag)
             ELSE container + Xor(index, kContainerFlag)

\* SingleArenaConfigUniversal::pointer_to(const void* ptr)
SingleArenaConfigUniversal_pointer_to_stackFirst(ptr) == SingleArenaConfig_pointer_to(ptr)

SingleArenaConfigUniversal_pointer_to(ptr) ==
    LET stackOffset     == stackTop - ptr
        offset          == stackOffset \div kNodeAlignment
        containerOffset == ptr - container
    IN  IF kObjectSize = 0 /\ ptr >= begin /\ ptr < end
          THEN pointer_to(ptr)
          ELSE IF stackOffset >= 0 /\ stackOffset < kMaxStackSize
                 THEN Or(IndexType(offset), kOnStackFlag)
                 ELSE IF kObjectSize = 0
                        THEN Or(IndexType(containerOffset), kContainerFlag)
                        ELSE IF containerOffset >= 0 /\ containerOffset < kObjectSize
                               THEN Or(IndexType(containerOffset), kContainerFlag)
                               ELSE pointer_to(ptr)

\* ArenaConfig::getElement, ArenaConfig::pointer_to
Config_getElement(index) ==
    IF Config = "SingleArenaConfig" THEN SingleArenaConfig_getElement(index)
    ELSE SingleArenaConfigUniversal_getElement(index)

Config_pointer_to(ptr) ==
    IF Config = "SingleArenaConfig" THEN SingleArenaConfig_pointer_to(ptr)
    ELSE SingleArenaConfigUniversal_pointer_to(ptr)

\* the registered regions: the slots of the arena's live nodes, the aligned
\* addresses of the stack window, the body of the container object
ArenaSlots == {getElement(h) : h \in outstanding}

StackAddresses ==
    {stackTop - d : d \in {x \in 0 .. (kMaxStackSize - 1) : x % kNodeAlignment = 0}}

BodySize == IF kObjectSize = 0 THEN kBodyLimit ELSE kObjectSize

BodyAddresses ==
    IF Config = "SingleArenaConfigUniversal"
      THEN {container + c : c \in 0 .. (BodySize - 1)}
      ELSE {}

Registered == ArenaSlots \cup StackAddresses \cup BodyAddresses

\* no Allocator has been rebound
NotRebound == [Type |-> "none", other |-> "none", heapBlocks |-> 0]

\* the program uses the arena without a Pointer
InitNoConfig ==
    /\ Config = NoConfig
    /\ kObjectSize = 0
    /\ kAssignContainerFollowingAllocator = FALSE
    /\ stackTop = NULL
    /\ container = NULL
    /\ ref = NULL
    /\ m_index = 0
    /\ element = NULL
    /\ pointerOp = "none"
    /\ rebound = NotRebound

\* an ArrayArena(capacity), whose constructor's setCapacity accepted the capacity,
\* after used calls of allocate(typeSize), none of them deallocated: the handles
\* 1 .. used are outstanding
ArenaInUse(IndexT, capacity, typeSize, used) ==
    /\ setCapacityResult(IndexT, NULL, capacity) = "ok"
    /\ Index = IndexT
    /\ m_capacity = capacity
    /\ m_elementSizeInIndex = typeSize \div SizeofIndex(IndexT)
    /\ m_doDelete = TRUE
    /\ m_nextFree = 0
    /\ m_allocatedCount = used
    /\ m_usedCapacity = used
    /\ m_ptr = kBufBegin
    /\ mem = [a \in BufWords |-> Dirty]
    /\ outstanding = 1 .. used
    /\ abandoned = {}
    /\ lastCall = [op |-> "allocate", arg |-> typeSize, result |-> "ok", index |-> used,
                   prev |-> IF used = 1 THEN "construct" ELSE "allocate",
                   pre |-> [Snapshot EXCEPT
                              !.elementSizeInIndex = IF used = 1 THEN 0 ELSE @,
                              !.ptr = IF used = 1 THEN NULL ELSE @,
                              !.allocatedCount = used - 1,
                              !.usedCapacity = used - 1,
                              !.outstanding = 1 .. (used - 1)]]

\* setArena, setStackTop, setContainer: a program whose Pointers go through an
\* ArenaConfig over an ArrayArena holding nodes
InitConfig ==
    /\ arena = "ArrayArena"
    /\ \E IndexT \in IndexTypes :
         \E capacity \in {MaxCapacity, CapacityLimit(IndexT) - 1} :
           \E e \in 1 .. MaxElementSize, used \in {1, capacity} :
              ArenaInUse(IndexT, capacity, e * SizeofIndex(IndexT), used)
    /\ InitMT
    /\ Config \in Configs
    /\ kObjectSize \in (IF Config = "SingleArenaConfigUniversal" THEN {0, kBodyLimit} ELSE {0})
    /\ kAssignContainerFollowingAllocator \in
          (IF Config = "SingleArenaConfigUniversal" THEN BOOLEAN ELSE {FALSE})
    /\ stackTop \in {kStackTop, StackTopOverArena}
    /\ container = (IF Config = "SingleArenaConfigUniversal" THEN kContainer ELSE NULL)
    /\ ref = NULL
    /\ m_index = 0
    /\ element = NULL
    /\ pointerOp = "none"
    /\ rebound = NotRebound

\* Pointer::pointer_to(ref): m_index = ArenaConfig::pointer_to(&ref)
Pointer_pointer_to(a) ==
    /\ Config # NoConfig
    /\ ref' = a
    /\ m_index' = Config_pointer_to(a)
    /\ element' = NULL
    /\ pointerOp' = "pointer_to"
    /\ UNCHANGED <<Config, kObjectSize, kAssignContainerFollowingAllocator, stackTop, container,
                   rebound>>
    /\ UNCHANGED <<arena, stVars, mtVars>>

\* Pointer::operator->(): ArenaConfig::getElement(m_index)
Pointer_arrow ==
    /\ Config # NoConfig
    /\ pointerOp = "pointer_to"
    /\ element' = Config_getElement(m_index)
    /\ pointerOp' = "operator->"
    /\ UNCHANGED <<Config, kObjectSize, kAssignContainerFollowingAllocator, stackTop, container,
                   ref, m_index, rebound>>
    /\ UNCHANGED <<arena, stVars, mtVars>>

\* constexpr VoidPointer(std::nullptr_t) : m_index(0)
Pointer_nullptr == 0

\* the m_index of a Pointer constructed from the Pointer p: Base(p)
Pointer_from_null(p) == Pointer_nullptr

Pointer_from(p) == p

\* operator==(const Pointer& left, const Pointer& right)
Pointer_eq(left, right) == left = right

\* template <typename Type2> Pointer(const Pointer<Type2, ArenaConfig>& p): the
\* implicit conversion to a Pointer to const, to a base class or to void
Pointer_widen(to) ==
    /\ Config # NoConfig
    /\ pointerOp \in {"pointer_to", "static_cast"}
    /\ m_index' = Pointer_from(m_index)
    /\ pointerOp' = to
    /\ UNCHANGED <<Config, kObjectSize, kAssignContainerFollowingAllocator, stackTop, container,
                   ref, element, rebound>>
    /\ UNCHANGED <<arena, stVars, mtVars>>

\* explicit Pointer(const Pointer<void, ArenaConfig>& p): static_cast from a
\* Pointer to void, and through it from a Pointer to a base class
Pointer_static_cast ==
    /\ Config # NoConfig
    /\ pointerOp \in {"Pointer<void>", "Pointer<Base>"}
    /\ m_index' = Pointer_from(m_index)
    /\ pointerOp' = "static_cast"
    /\ UNCHANGED <<Config, kObjectSize, kAssignContainerFollowingAllocator, stackTop, container,
                   ref, element, rebound>>
    /\ UNCHANGED <<arena, stVars, mtVars>>

\* the addresses of the Allocator objects of the program's containers: the
\* registered container object, and a second container next to it
AllocatorAddresses == {kContainer, kContainer + BodySize}

\* ArenaConfig::setContainer(ptr): a no-op in SingleArenaConfig
ArenaConfig_setContainer(ptr) ==
    IF Config = "SingleArenaConfigUniversal" THEN ptr ELSE container

\* VoidAllocator(): m_arena(defaultArena()), ArenaConfig::setContainer(this)
VoidAllocator(this) ==
    /\ Config # NoConfig
    /\ container' = ArenaConfig_setContainer(this)
    /\ UNCHANGED <<Config, kObjectSize, kAssignContainerFollowingAllocator, stackTop,
                   ref, m_index, element, pointerOp, rebound>>
    /\ UNCHANGED <<arena, stVars, mtVars>>

\* Allocator(const Allocator& other), Allocator(const Allocator<Type2, ArenaConfig>&)
Allocator_copy(this) ==
    /\ Config # NoConfig
    /\ container' = ArenaConfig_setContainer(this)
    /\ UNCHANGED <<Config, kObjectSize, kAssignContainerFollowingAllocator, stackTop,
                   ref, m_index, element, pointerOp, rebound>>
    /\ UNCHANGED <<arena, stVars, mtVars>>

\* Allocator& operator=(const Allocator& other)
Allocator_assign(this) ==
    /\ Config # NoConfig
    /\ container' = ArenaConfig_setContainer(this)
    /\ UNCHANGED <<Config, kObjectSize, kAssignContainerFollowingAllocator, stackTop,
                   ref, m_index, element, pointerOp, rebound>>
    /\ UNCHANGED <<arena, stVars, mtVars>>

\* a program taking Pointers to the objects of the registered regions, and
\* constructing, copying and assigning the Allocators of its containers
NextConfig ==
    \/ \E a \in Registered : Pointer_pointer_to(a)
    \/ Pointer_arrow
    \/ \E to \in {"Pointer<const>", "Pointer<void>", "Pointer<Base>"} : Pointer_widen(to)
    \/ Pointer_static_cast
    \/ \E this \in AllocatorAddresses : VoidAllocator(this)
    \/ \E this \in AllocatorAddresses : Allocator_copy(this)
    \/ \E this \in AllocatorAddresses : Allocator_assign(this)

\* ------------------------------------------------------------------ Allocator
\* the blocks a container keeps on the heap at most (its bucket arrays)
MaxHeapBlocks == 2

\* the types a hash container rebinds its Allocator to: its bucket type, its node
\* type, its value type
Types == {"boost::unordered::detail::bucket", "node", "value_type"}

\* IsUnorderedBucket<Type>::value
IsUnorderedBucket(Type) == Type = "boost::unordered::detail::bucket"

\* VoidAllocator::rebind<Type>::other
rebind_alwaysAllocator(Type) == "Allocator"

rebind(Type) ==
    IF IsUnorderedBucket(Type) THEN "ArenaConfig::ArrayAllocator" ELSE "Allocator"

\* sizeof(Type) of the types the container allocates: a bucket holds one pointer,
\* a node a pointer and a value
Sizeof(Type) ==
    IF IsUnorderedBucket(Type) THEN SizeofIndex(Index) ELSE 2 * SizeofIndex(Index)

\* the container rebinds its allocator to Type
Allocator_rebind(Type) ==
    /\ rebound' = [rebound EXCEPT !.Type = Type, !.other = rebind(Type)]
    /\ UNCHANGED <<Config, kObjectSize, kAssignContainerFollowingAllocator, stackTop, container,
                   ref, m_index, element, pointerOp>>
    /\ UNCHANGED <<arena, stVars, mtVars>>

\* StdAllocator<Type>::allocate, std::allocator: a block of the heap
StdAllocator_allocate ==
    /\ rebound.heapBlocks < MaxHeapBlocks
    /\ rebound' = [rebound EXCEPT !.heapBlocks = @ + 1]
    /\ UNCHANGED <<Config, kObjectSize, kAssignContainerFollowingAllocator, stackTop, container,
                   ref, m_index, element, pointerOp>>
    /\ UNCHANGED <<arena, stVars, mtVars>>

\* StdAllocator<Type>::deallocate
StdAllocator_deallocate ==
    /\ rebound.heapBlocks > 0
    /\ rebound' = [rebound EXCEPT !.heapBlocks = @ - 1]
    /\ UNCHANGED <<Config, kObjectSize, kAssignContainerFollowingAllocator, stackTop, container,
                   ref, m_index, element, pointerOp>>
    /\ UNCHANGED <<arena, stVars, mtVars>>

\* rebind<Type>::other::allocate(1): the container allocates a bucket array or a node
other_allocate ==
    /\ rebound.Type \in {"boost::unordered::detail::bucket", "node"}
    /\ IF rebound.other = "Allocator"
         THEN allocate(Sizeof(rebound.Type))
         ELSE StdAllocator_allocate

\* rebind<Type>::other::deallocate
other_deallocate ==
    /\ rebound.Type \in {"boost::unordered::detail::bucket", "node"}
    /\ IF rebound.other = "Allocator"
         THEN \E index \in outstanding : deallocate(index, elementSize)
         ELSE StdAllocator_deallocate

\* a hash container over an ArrayArena: it rebinds its Allocator and allocates
\* and frees buckets and nodes
NextAllocator ==
    \/ \E Type \in Types : Allocator_rebind(Type)
    \/ other_allocate
    \/ other_deallocate

\* ------------------------------------------------------------------ specifications
\* a single-threaded program with an ArrayArena
Init == arena = "ArrayArena" /\ InitST /\ InitMT /\ InitNoConfig

Next == NextST

Spec == Init /\ [][Next]_vars

\* threads sharing an ArrayArenaMT
InitMTOnly ==
    arena = "ArrayArenaMT" /\ ArrayArena("uint16_t", 0, TRUE) /\ InitMT /\ InitNoConfig

SpecMT == InitMTOnly /\ [][NextMT]_vars

\* a program with either arena
InitArenas ==
    \/ Init
    \/ InitMTOnly

NextArenas ==
    \/ NextST
    \/ NextMT

SpecArenas == InitArenas /\ [][NextArenas]_vars

\* a program using Pointers over an ArenaConfig
SpecConfig == InitConfig /\ [][NextConfig]_vars

\* a single-threaded program that makes every call on an ArrayArena and on an
\* ArrayArenaMT constructed alike
InitSideBySide ==
    /\ arena = "sideBySide_ArrayArena"
    /\ ArrayArena(IndexMT, 0, TRUE)
    /\ InitMT
    /\ InitNoConfig

SpecSideBySide == InitSideBySide /\ [][NextSideBySide]_vars

\* threads that make MaxCalls calls each on an ArrayArenaMT(MaxCapacity) whose
\* first used handles have been allocated and are held
InitFair ==
    /\ arena = "ArrayArenaMT"
    /\ ArrayArena("uint16_t", 0, TRUE)
    /\ InitNoConfig
    /\ mt_capacity = MaxCapacity
    /\ mt_elementSizeInIndex = kTypeSizeMT \div SizeofIndex(IndexMT)
    /\ mt_doDelete = TRUE
    /\ mt_isAllocError = FALSE
    /\ mt_allocMutex = NoThread
    /\ mt_head = 0
    /\ mt_usedCapacity \in 1 .. MaxCapacity
    /\ mt_ptr = kBufBegin
    /\ mt_mem = [a \in BufWords |-> Dirty]
    /\ pc = [t \in Threads |-> "idle"]
    /\ headD = [t \in Threads |-> 0]
    /\ futureHead = [t \in Threads |-> 0]
    /\ futureCapacity = [t \in Threads |-> 0]
    /\ free = [t \in Threads |-> 0]
    /\ freeSlot = [t \in Threads |-> NULL]
    /\ headChanged = [t \in Threads |-> FALSE]
    /\ held = [i \in 1 .. MaxCapacity |-> IF i <= mt_usedCapacity THEN 1 ELSE 0]
    /\ mt_lastCall = NoCall
    /\ mt_abandoned = {}
    /\ callsLeft = [t \in Threads |-> MaxCalls]

SpecFair == InitFair /\ [][NextFair]_vars /\ Fairness

\* a program with a hash container whose Allocator draws from an ArrayArena
InitAllocator ==
    /\ arena = "ArrayArena"
    /\ InitST
    /\ InitMT
    /\ Config \in Configs
    /\ kObjectSize = 0
    /\ kAssignContainerFollowingAllocator = (Config = "SingleArenaConfigUniversal")
    /\ stackTop = kStackTop
    /\ container = NULL
    /\ ref = NULL
    /\ m_index = 0
    /\ element = NULL
    /\ pointerOp = "none"
    /\ rebound = NotRebound

SpecAllocator == InitAllocator /\ [][NextAllocator]_vars

\* ------------------------------------------------------------------ claims
\* C1: in the single-threaded arena a successful allocate never returns a handle
\* that was outstanding when it was called: a slot has at most one live owner
C1_NoDoubleOwner ==
    (lastCall.op = "allocate" /\ lastCall.result = "ok")
        => lastCall.index \notin lastCall.pre.outstanding

\* an allocate has popped a recycled slot while other handles were outstanding
C1_Witness ==
    /\ lastCall.op = "allocate"
    /\ lastCall.result = "ok"
    /\ lastCall.pre.nextFree # 0
    /\ lastCall.pre.outstanding # {}

\* C6 as amended: the handles on the free list, the outstanding handles and the
\* handles deallocated while deletion was off since the last reset are pairwise
\* disjoint, the free list has no handle twice, and together they are exactly
\* 1 .. usedCapacity
C6_Partition ==
    /\ Cardinality(FreeSet) = Len(FreeList)
    /\ FreeSet \cap outstanding = {}
    /\ FreeSet \cap abandoned = {}
    /\ outstanding \cap abandoned = {}
    /\ FreeSet \cup outstanding \cup abandoned = 1 .. m_usedCapacity

\* free, outstanding and abandoned handles at once
C6_Witness ==
    /\ FreeSet # {}
    /\ outstanding # {}
    /\ abandoned # {}

\* C6 as stated: the free handles and the outstanding handles are disjoint and
\* their union is exactly 1 .. usedCapacity
C6_Original ==
    /\ FreeSet \cap outstanding = {}
    /\ FreeSet \cup outstanding = 1 .. m_usedCapacity

\* when the last allocate found no free slot and no room to bump
C7_Exhausted == lastCall.pre.nextFree = 0 /\ lastCall.pre.usedCapacity = lastCall.pre.capacity

\* C7 as amended: allocate fails with OutOfMemory iff the free list is empty and
\* either usedCapacity = capacity, or the buffer is not acquired yet and the buffer
\* source refuses typeSize * capacity bytes
C7_OutOfMemoryIff ==
    lastCall.op = "allocate" =>
        (lastCall.result = "OutOfMemory" <=>
            /\ lastCall.pre.nextFree = 0
            /\ \/ lastCall.pre.usedCapacity = lastCall.pre.capacity
               \/ /\ lastCall.pre.ptr = NULL
                  /\ ~MallocOk(lastCall.arg * lastCall.pre.capacity))

\* an allocate has failed on an arena whose slots are all handed out
C7_Witness ==
    /\ lastCall.op = "allocate"
    /\ lastCall.result = "OutOfMemory"
    /\ C7_Exhausted
    /\ lastCall.pre.usedCapacity > 0

\* C7 as stated: allocate fails with OutOfMemory iff the free list is empty and
\* usedCapacity = capacity
C7_Original ==
    lastCall.op = "allocate" => (lastCall.result = "OutOfMemory" <=> C7_Exhausted)

\* C8: after a deallocate that brings allocatedCount to zero usedCapacity and
\* freeHead are 0 and the buffer is kept, and the allocate that follows returns 1
C8_AutoReset ==
    /\ (lastCall.op = "deallocate" /\ m_allocatedCount = 0) =>
          /\ m_usedCapacity = 0
          /\ m_nextFree = 0
          /\ m_ptr # NULL
          /\ m_ptr = lastCall.pre.ptr
    /\ (/\ lastCall.op = "allocate"
        /\ lastCall.prev = "deallocate"
        /\ lastCall.pre.allocatedCount = 0) =>
          /\ lastCall.result = "ok"
          /\ lastCall.index = 1

\* an allocate right after the deallocate of the last outstanding handle, made
\* when more than one slot had been handed out
C8_Witness ==
    /\ lastCall.op = "allocate"
    /\ lastCall.prev = "deallocate"
    /\ lastCall.pre.allocatedCount = 0
    /\ lastCall.pre.ptr # NULL
    /\ lastCall.index = 1

\* C2: in the multi-threaded arena no handle is owned by two callers at once,
\* whatever the interleaving of the threads' allocate and deallocate calls
C2_NoDuplicateHandle == \A i \in 1 .. MaxCapacity : held[i] <= 1

\* C3: when other threads' pushes and pops have succeeded since a thread read the
\* head inside pull or push, the head differs from the one the thread read (its
\* stamp has changed), so the thread's compare-exchange fails
C3_StaleCasFails ==
    \A t \in Threads : (InCas(t) /\ headChanged[t]) => mt_head # headD[t]

\* C4: for every outstanding handle h of the arena, pointer_to(getElement(h)) is
\* h: a Pointer made from the address of h's slot holds the index h
C4_HandleRoundTrip ==
    \A h \in outstanding :
        (pointerOp = "pointer_to" /\ ref = getElement(h)) => m_index = h

\* C5: a Pointer made from an address of a registered region (a live arena slot,
\* an aligned address of the stack window, an address of the container body)
\* gives that address back: getElement(pointer_to(a)) = a, for both configs and
\* both index widths; stated for the addresses that pass the assertions of
\* pointer_to (the stack offset fits the handle's payload)
C5_AddressRoundTrip ==
    (pointerOp = "operator->" /\ ref \in Registered /\ StackAssert(ref)) => element = ref

\* C9: usedCapacity decreases in a step only when the step is reset, freeMemory,
\* the single-threaded deallocate that gives back the last outstanding handle
\* (the auto-reset), or, in the multi-threaded arena, the roll-back of an
\* allocate whose increment went over the capacity
C9_MonotoneHighWater ==
    [][ /\ m_usedCapacity' < m_usedCapacity =>
             \/ lastCall'.op \in {"reset", "freeMemory"}
             \/ lastCall'.op = "deallocate" /\ outstanding' = {}
        /\ mt_usedCapacity' < mt_usedCapacity =>
             \/ resetMT
             \/ freeMemoryMT
             \/ \E t \in Threads : allocateMT_rollback(t) ]_vars

\* C9, a thread's increment has taken usedCapacity of the multi-threaded arena
\* over the capacity and its roll-back is about to lower it
C9_Witness == \E t \in Threads : pc[t] = "rollback" /\ mt_usedCapacity > mt_capacity

\* C9 as stated: usedCapacity decreases only in reset, freeMemory and the
\* single-threaded auto-reset
C9_Original ==
    [][ /\ m_usedCapacity' < m_usedCapacity =>
             \/ lastCall'.op \in {"reset", "freeMemory"}
             \/ lastCall'.op = "deallocate" /\ outstanding' = {}
        /\ mt_usedCapacity' < mt_usedCapacity =>
             \/ resetMT
             \/ freeMemoryMT ]_vars

\* the outcome C10 states for setCapacity(n) on an arena of type IndexT whose
\* buffer is ptr
C10_Outcome(IndexT, ptr, n) ==
    IF n >= 2 ^ (kBits(IndexT) - 1) THEN "CapacityTooLarge"
    ELSE IF ptr # NULL THEN "AllocationInProgress"
    ELSE "ok"

\* C10: setCapacity(n) fails with CapacityTooLarge when n >= 2^(W-1), otherwise
\* with AllocationInProgress when the buffer is acquired, otherwise sets the
\* capacity to n; a failed call leaves every field of the arena as it was; for
\* ArrayArena and for ArrayArenaMT
C10_SetCapacity ==
    /\ lastCall.op = "setCapacity" =>
         /\ lastCall.result = C10_Outcome(Index, lastCall.pre.ptr, lastCall.arg)
         /\ lastCall.result = "ok" =>
              Snapshot = [lastCall.pre EXCEPT !.capacity = lastCall.arg]
         /\ lastCall.result # "ok" => Snapshot = lastCall.pre
    /\ mt_lastCall.op = "setCapacity" =>
         /\ mt_lastCall.result = C10_Outcome(IndexMT, mt_lastCall.pre.ptr, mt_lastCall.arg)
         /\ mt_lastCall.result = "ok" =>
              SnapshotMT = [mt_lastCall.pre EXCEPT !.capacity = mt_lastCall.arg]
         /\ mt_lastCall.result # "ok" => SnapshotMT = mt_lastCall.pre

\* C10, a setCapacity has failed on an arena that holds its buffer, after another
\* setCapacity or in the multi-threaded arena
C10_Witness ==
    \/ /\ lastCall.op = "setCapacity"
       /\ lastCall.result = "AllocationInProgress"
       /\ lastCall.prev = "setCapacity"
       /\ m_usedCapacity > 0
    \/ /\ mt_lastCall.op = "setCapacity"
       /\ mt_lastCall.result = "AllocationInProgress"
       /\ mt_usedCapacity > 0

\* C11: under the universal config the arena in use has a capacity below 2^(W-2)
\* (a larger one was refused when it was configured), so the handle of a live
\* arena slot has both top bits clear and operator-> decodes it as that arena slot
C11_UniversalCapacity ==
    (Config = "SingleArenaConfigUniversal" /\ pointerOp = "operator->" /\ ref \in ArenaSlots)
        => /\ m_capacity < 2 ^ (kBits(Index) - 2)
           /\ ~HasFlag(m_index, kContainerFlag)
           /\ ~HasFlag(m_index, kOnStackFlag)
           /\ element = getElement(m_index)

\* C12: every handle a successful allocate returns lies in 1 .. capacity, in the
\* single-threaded arena and, under any interleaving, in the multi-threaded
\* arena, where the handles the threads hold are the ones allocate returned
C12_HandleInRange ==
    /\ (lastCall.op = "allocate" /\ lastCall.result = "ok") =>
          (lastCall.index >= 1 /\ lastCall.index <= m_capacity)
    /\ \A i \in 1 .. MaxCapacity : held[i] > 0 => i <= mt_capacity

\* C13: with deletion off deallocate recycles nothing. In the single-threaded
\* arena it leaves freeHead and usedCapacity as they were (short of the auto-reset
\* of the last outstanding handle), in the multi-threaded arena it changes no
\* field at all, and in both a handle deallocated while deletion was off is not
\* returned by a later allocate before the next reset
C13_DeleteDisabled ==
    /\ [](/\ (lastCall.op = "deallocate" /\ ~lastCall.pre.doDelete /\ m_allocatedCount # 0) =>
               /\ m_nextFree = lastCall.pre.nextFree
               /\ m_usedCapacity = lastCall.pre.usedCapacity
          /\ (lastCall.op = "allocate" /\ lastCall.result = "ok") =>
               lastCall.index \notin lastCall.pre.abandoned
          /\ \A i \in mt_abandoned : held[i] = 0)
    /\ [][\A t \in Threads, i \in 1 .. MaxCapacity :
             deallocateMT_noDelete(t, i) => SnapshotMT' = SnapshotMT /\ mt_mem' = mt_mem]_vars

\* C14: while deletion is off a successful allocate returns usedCapacity + 1, a
\* new index: the single-threaded allocate returns the high-water mark plus one,
\* and the multi-threaded allocate never returns a handle popped from the free list
C14_NewIndexWhenOff ==
    /\ []((lastCall.op = "allocate" /\ lastCall.result = "ok" /\ ~lastCall.pre.doDelete) =>
            (/\ lastCall.index = lastCall.pre.usedCapacity + 1
             /\ lastCall.index \notin lastCall.pre.outstanding))
    /\ [][\A t \in Threads : pull_cas_ok(t) => mt_doDelete]_vars

\* C15: no pushed handle is lost. A completed push leaves its handle at the head
\* of the chain, where the next pop finds it, and a handle leaves the chain
\* reachable from the head only in the step that returns it to a caller of
\* allocate, or in reset and freeMemory
C15_NoLostSlot ==
    [][/\ \A t \in Threads : push_cas_ok(t) =>
              (toIndex(mt_head') = free[t] /\ free[t] \in FreeSetMT')
       /\ \A i \in FreeSetMT :
              i \notin FreeSetMT' =>
                  \/ \E t \in Threads : pull_cas_ok(t) /\ toIndex(headD[t]) = i /\ held'[i] > held[i]
                  \/ resetMT
                  \/ freeMemoryMT]_vars

\* C16: what every linearization of the free list as a LIFO stack with a
\* monotone stamp requires of a step: the stamp of the head does not decrease
\* (short of reset and freeMemory), and a pop returns a handle that is on the
\* stack, that is one no caller holds
C16_Linearizable ==
    [][/\ toStamp(mt_head') < toStamp(mt_head) => (resetMT \/ freeMemoryMT)
       /\ \A t \in Threads : pull_cas_ok(t) => held[toIndex(headD[t])] = 0]_vars

\* C17: a failure of the buffer source inside allocateBuffer latches the error
\* flag; while it is set no step invokes the buffer source, no buffer appears, no
\* allocate returns a handle (a thread leaves allocate only through the roll-back
\* of its failure, the concurrent first allocators included), and only
\* freeMemory clears the flag
C17_StickyError ==
    [][/\ (\E t \in Threads : allocateBuffer_mallocThrows(t)) => mt_isAllocError'
       /\ mt_isAllocError =>
            /\ \A t \in Threads : ~allocateBuffer_malloc(t) /\ ~allocateBuffer_mallocThrows(t)
            /\ mt_ptr = NULL /\ mt_ptr' = NULL
            /\ held = NoneHeld /\ held' = NoneHeld
            /\ \A t \in Threads : (pc[t] # "idle" /\ pc'[t] = "idle") => pc[t] = "rollback"
            /\ \A t \in Threads : (pc[t] = "lock" /\ pc'[t] # "lock") => pc'[t] = "rollback"
       /\ (mt_isAllocError /\ ~mt_isAllocError') => freeMemoryMT]_vars

\* C17, the flag is latched, the thread whose acquisition failed is rolling back
\* and a concurrent first allocator is about to enter the critical section
C17_Witness ==
    /\ mt_isAllocError
    /\ \E t, u \in Threads : t # u /\ pc[t] = "rollback" /\ pc[u] = "lock"

\* what a caller sees of the two arenas after the same calls: the handles it
\* holds (what allocate returned or refused), usedCapacity, and the outcome of
\* setCapacity
C18_SameOutcome ==
    /\ outstanding = {i \in 1 .. MaxCapacity : held[i] > 0}
    /\ m_usedCapacity = mt_usedCapacity
    /\ lastCall.op = "setCapacity" =>
          (mt_lastCall.op = "setCapacity" /\ mt_lastCall.result = lastCall.result)
    /\ (lastCall.op = "allocate" /\ lastCall.result = "ok") => held[lastCall.index] > 0

C19_NoPartialSuccess ==
    [][/\ (lastCall'.op = "allocate" /\ lastCall'.result = "OutOfMemory" /\ lastCall' # lastCall) =>
             UNCHANGED <<m_nextFree, m_usedCapacity, m_allocatedCount, m_elementSizeInIndex,
                         m_ptr, mem, m_capacity, outstanding>>
       /\ \A t \in Threads :
             (pc[t] = "bump" /\ pc'[t] # "bump") =>
                /\ mt_usedCapacity' = mt_usedCapacity + 1
                /\ futureCapacity'[t] = mt_usedCapacity + 1
                /\ UNCHANGED <<mt_head, mt_mem, mt_ptr, mt_elementSizeInIndex, held>>
       /\ \A t \in Threads :
             (pc[t] \in {"check", "lock"} /\ pc'[t] = "rollback") =>
                UNCHANGED <<mt_usedCapacity, mt_head, mt_mem, mt_ptr, mt_elementSizeInIndex, held>>
       /\ \A t \in Threads :
             (pc[t] = "rollback" /\ pc'[t] # "rollback") =>
                /\ pc'[t] = "idle"
                /\ mt_usedCapacity' = mt_usedCapacity - 1
                /\ UNCHANGED <<mt_head, mt_mem, mt_ptr, mt_elementSizeInIndex, held>>]_vars

\* C19, a thread's increment has gone past the capacity of an ArrayArenaMT whose
\* slots are all handed out and held: its allocate is failing, the roll-back is due
C19_Witness ==
    /\ TurnMT
    /\ mt_capacity > 0 /\ mt_usedCapacity = mt_capacity + 1
    /\ \A i \in 1 .. mt_capacity : held[i] > 0
    /\ \E t \in Threads : pc[t] = "rollback" /\ \A u \in Threads \ {t} : pc[u] = "idle"

\* C20: reset clears freeHead, usedCapacity and allocatedCount and leaves the
\* buffer, capacity, elementSize and deleteEnabled as they were; freeMemory clears
\* the same three, releases the buffer and forgets elementSize, leaving capacity
\* and deleteEnabled; after freeMemory setCapacity(n) succeeds for every
\* n < 2^(W-1) and an allocate of any element size is accepted; an allocate that
\* succeeds without a buffer acquires one and locks its own element size
C20_ResetAndFreeMemory ==
    /\ [](lastCall.op = "freeMemory" =>
            /\ begin = NULL /\ elementSize = 0
            /\ m_nextFree = 0 /\ m_usedCapacity = 0 /\ m_allocatedCount = 0
            /\ \A n \in 0 .. (CapacityLimit(Index) - 1) : setCapacityResult(Index, begin, n) = "ok")
    /\ [][/\ (lastCall'.op = "reset" /\ lastCall' # lastCall) =>
                /\ m_nextFree' = 0 /\ m_usedCapacity' = 0 /\ m_allocatedCount' = 0
                /\ UNCHANGED <<m_ptr, mem, m_capacity, m_elementSizeInIndex, m_doDelete>>
          /\ (lastCall'.op = "freeMemory" /\ lastCall' # lastCall) =>
                /\ m_nextFree' = 0 /\ m_usedCapacity' = 0 /\ m_allocatedCount' = 0
                /\ m_ptr' = NULL /\ m_elementSizeInIndex' = 0
                /\ UNCHANGED <<m_capacity, m_doDelete>>
          /\ (lastCall.op = "freeMemory" /\ lastCall'.op = "setCapacity"
                /\ lastCall'.arg < CapacityLimit(Index)) =>
                /\ lastCall'.result = "ok"
                /\ m_capacity' = lastCall'.arg
          /\ (begin = NULL /\ lastCall'.op = "allocate" /\ lastCall'.result = "ok"
                /\ lastCall' # lastCall) =>
                /\ m_ptr' # NULL
                /\ m_elementSizeInIndex' * SizeofIndex(Index) = lastCall'.arg
                /\ lastCall'.index = 1]_vars

\* C20, freeMemory has acted on an arena that held its buffer, a free list and
\* handed-out slots of the larger element size
C20_Witness ==
    /\ lastCall.op = "freeMemory"
    /\ lastCall.pre.ptr # NULL
    /\ lastCall.pre.nextFree # 0
    /\ lastCall.pre.usedCapacity = MaxCapacity
    /\ lastCall.pre.elementSizeInIndex = 2
    /\ begin = NULL /\ elementSize = 0 /\ m_usedCapacity = 0

\* C21: the buffer appears only in a successful allocate and every successful
\* allocate leaves it acquired; it stays across deallocate, the auto-reset, reset,
\* enableDelete and setCapacity and goes only in freeMemory; while it is held
\* every setCapacity fails and no call changes capacity, also when the live count
\* is back to zero
C21_BufferLifecycle ==
    /\ []((lastCall.op = "allocate" /\ lastCall.result = "ok") => begin # NULL)
    /\ [][/\ (begin = NULL /\ begin' # NULL) =>
                (lastCall'.op = "allocate" /\ lastCall'.result = "ok")
          /\ (begin # NULL /\ begin' = NULL) => lastCall'.op = "freeMemory"
          /\ (begin # NULL /\ lastCall'.op # "freeMemory") => begin' = begin
          /\ begin # NULL => m_capacity' = m_capacity
          /\ (begin # NULL /\ lastCall'.op = "setCapacity" /\ lastCall' # lastCall) =>
                lastCall'.result # "ok"]_vars

\* C21, setCapacity has failed on an arena that holds its buffer right after the
\* deallocate that brought the live count back to zero
C21_Witness ==
    /\ lastCall.op = "setCapacity" /\ lastCall.result = "AllocationInProgress"
    /\ lastCall.prev = "deallocate"
    /\ lastCall.arg < CapacityLimit(Index)
    /\ m_allocatedCount = 0 /\ m_usedCapacity = 0
    /\ begin # NULL

\* C22: constructing, copying or assigning an Allocator sets the config's
\* container to the Allocator's address only when the config's
\* kAssignContainerFollowingAllocator is true; when it is false the container is
\* left as it was
C22_ContainerFollowsFlag ==
    [][\A this \in AllocatorAddresses :
          (VoidAllocator(this) \/ Allocator_copy(this) \/ Allocator_assign(this)) =>
              container' = (IF kAssignContainerFollowingAllocator THEN this ELSE container)]_vars

\* C23: rebinding the Allocator to T selects the config's ArrayAllocator, the heap
\* allocator, exactly when T is the hash table's bucket type, and the Allocator
\* of the same config for every other T; an allocation or deallocation for the
\* bucket type changes nothing of the arena, and every call that reaches the
\* arena is for a node
C23_RebindSelection ==
    /\ [](rebound.Type # "none" =>
             (rebound.other = "ArenaConfig::ArrayAllocator"
                 <=> rebound.Type = "boost::unordered::detail::bucket"))
    /\ [](rebound.Type # "none" =>
             (rebound.other = "Allocator"
                 <=> rebound.Type # "boost::unordered::detail::bucket"))
    /\ [][/\ rebound'.heapBlocks # rebound.heapBlocks =>
                (rebound.Type = "boost::unordered::detail::bucket" /\ UNCHANGED stVars)
          /\ lastCall' # lastCall =>
                (rebound.Type = "node" /\ rebound'.heapBlocks = rebound.heapBlocks)]_vars

\* C23, the container holds bucket arrays on the heap and the arena has handed
\* out only its two nodes
C23_Witness ==
    /\ rebound.Type = "boost::unordered::detail::bucket"
    /\ rebound.heapBlocks = MaxHeapBlocks
    /\ m_allocatedCount = 2 /\ m_usedCapacity = 2
    /\ elementSize = Sizeof("node")

C25_LockFree ==
    /\ \A t \in Threads : (pc[t] # "idle") ~> (pc[t] = "idle")
    /\ [][\A t \in Threads :
             (pull_cas_fail(t) \/ push_cas_fail(t)) => (headChanged[t] /\ mt_head # headD[t])]_vars

\* C25, a push is about to repeat its loop: another thread's compare-exchange
\* has moved the head since the thread loaded it
C25_Witness ==
    \E t \in Threads :
        /\ pc[t] = "push_cas"
        /\ headChanged[t]
        /\ mt_head # headD[t]
        /\ callsLeft[t] = 0

\* C26: in the multi-threaded arena, whenever an allocate has returned a handle
\* that is still held, elementSize is locked (not 0) and the returned handles
\* have distinct slots: no thread returns from allocate while
\* m_elementSizeInIndex is still 0
C26_ElementSizeLocked ==
    /\ (\E i \in 1 .. MaxCapacity : held[i] > 0) => mt_elementSizeInIndex # 0
    /\ \A i, j \in 1 .. MaxCapacity :
          (held[i] > 0 /\ held[j] > 0 /\ i # j) => getElementMT(i) # getElementMT(j)

C28_RewindAtLastDeallocate ==
    [][(lastCall'.op = "deallocate" /\ lastCall' # lastCall) =>
          /\ m_allocatedCount' = m_allocatedCount - 1
          /\ m_usedCapacity > 0
          /\ (m_allocatedCount' > 0) => m_usedCapacity' = m_usedCapacity
          /\ (m_allocatedCount' = 0) => m_usedCapacity' = 0
          /\ (m_usedCapacity' = 0) <=> (m_allocatedCount' = 0)]_vars

\* C28, the last of three handles is released: the deallocate before it kept
\* the high-water mark 3, this one rewinds it
C28_Witness ==
    /\ lastCall.op = "deallocate"
    /\ lastCall.prev = "deallocate"
    /\ lastCall.pre.allocatedCount = 1
    /\ lastCall.pre.usedCapacity = MaxCapacity
    /\ m_allocatedCount = 0
    /\ m_usedCapacity = 0

C30_StackEncoding ==
    LET d       == stackTop - ref
        inArena == /\ Config = "SingleArenaConfigUniversal" /\ kObjectSize = 0
                   /\ ref >= begin /\ ref < end
    IN  (/\ pointerOp \in {"pointer_to", "operator->"}
         /\ ref \in StackAddresses
         /\ d \div kNodeAlignment < kOnStackFlag
         /\ ~inArena) =>
            /\ m_index = (d \div kNodeAlignment) + kOnStackFlag
            /\ m_index < IndexMod(Index)
            /\ (pointerOp = "operator->") =>
                  /\ element = stackTop - kNodeAlignment * (m_index - kOnStackFlag)
                  /\ element = ref

\* C30, a 16-bit Pointer to an object below the stack top has been dereferenced
C30_Witness ==
    /\ Index = "uint16_t"
    /\ pointerOp = "operator->"
    /\ ref \in StackAddresses
    /\ stackTop - ref = 2 * kNodeAlignment
    /\ m_index = 2 + kOnStackFlag
    /\ element = ref

\* C30 as stated: for every aligned address within kMaxStackSize below the
\* stack top pointer_to gives d / kNodeAlignment with kOnStackFlag set
C30_Original ==
    (pointerOp = "pointer_to" /\ ref \in StackAddresses) =>
        /\ HasFlag(m_index, kOnStackFlag)
        /\ Xor(m_index, kOnStackFlag) = (stackTop - ref) \div kNodeAlignment

\* C31: under the universal config the top two bits of a non-null handle tell
\* where it points: the handle of a live arena slot carries neither flag, the
\* handle of a stack address carries kOnStackFlag, the handle of an address of
\* the container body carries kContainerFlag, and no handle carries both flags;
\* stated for the addresses that pass the assertions of pointer_to
C31_TagPartition ==
    (/\ Config = "SingleArenaConfigUniversal"
     /\ pointerOp = "pointer_to"
     /\ ref \in Registered
     /\ StackAssert(ref)) =>
        /\ ~(HasFlag(m_index, kOnStackFlag) /\ HasFlag(m_index, kContainerFlag))
        /\ (ref \in ArenaSlots /\ (kObjectSize = 0 \/ ref \notin StackAddresses \cup BodyAddresses)) =>
              /\ ~HasFlag(m_index, kOnStackFlag)
              /\ ~HasFlag(m_index, kContainerFlag)
              /\ m_index = pointer_to(ref)

\* C32: the container branch of the universal config. pointer_to of an address
\* outside the stack window: with kObjectSize > 0 the handle is
\* (addr - container) | kContainerFlag when 0 <= addr - container < kObjectSize
\* and arena.pointer_to(addr) otherwise; with kObjectSize 0 an address outside
\* the arena range whose offset c from the container satisfies 0 <= c < 256
\* (kBodyLimit) gives c | kContainerFlag. operator-> of a handle that carries
\* kContainerFlag and not kOnStackFlag gives container + (handle without the flag)
C32_ContainerEncoding ==
    [][(Config = "SingleArenaConfigUniversal") =>
          /\ (/\ pointerOp' = "pointer_to"
              /\ (pointerOp # "pointer_to" \/ ref' # ref \/ m_index' # m_index)
              /\ ~(stackTop - ref' >= 0 /\ stackTop - ref' < kMaxStackSize)) =>
                 LET c == ref' - container
                 IN  IF kObjectSize > 0
                       THEN IF c >= 0 /\ c < kObjectSize
                              THEN m_index' = c + kContainerFlag
                              ELSE m_index' = pointer_to(ref')
                       ELSE (~(ref' >= begin /\ ref' < end) /\ c >= 0 /\ c < kBodyLimit) =>
                                m_index' = c + kContainerFlag
          /\ (/\ pointerOp = "pointer_to" /\ pointerOp' = "operator->"
              /\ HasFlag(m_index, kContainerFlag) /\ ~HasFlag(m_index, kOnStackFlag)) =>
                 element' = container + (m_index - kContainerFlag)]_vars

\* C32, a Pointer to a member of the container object, made with kObjectSize > 0,
\* has been dereferenced and gives the member's address
C32_Witness ==
    /\ Config = "SingleArenaConfigUniversal" /\ kObjectSize > 0
    /\ pointerOp = "operator->"
    /\ ref \in BodyAddresses /\ ref # container
    /\ m_index = (ref - container) + kContainerFlag
    /\ element = ref

\* C33: the buffer of the ArrayArenaMT is acquired once. Alloc::malloc is called
\* by a thread that holds the mutex and only while there is no buffer; once the
\* buffer is there nothing but freeMemory, called with every thread outside the
\* arena, changes it; a thread that returns a handle returns it with the buffer
\* in place and leaves the buffer as it is; while handles are held there is a
\* buffer
C33_OneShotBuffer ==
    /\ []((\E i \in 1 .. MaxCapacity : held[i] > 0) => mt_ptr # NULL)
    /\ [][/\ \A t \in Threads :
                (pc[t] = "lock" /\ pc'[t] = "set_size") =>
                    /\ mt_ptr = NULL /\ mt_ptr' # NULL
                    /\ mt_allocMutex = NoThread /\ mt_allocMutex' = t
                    /\ \A u \in Threads \ {t} : pc[u] # "set_size"
          /\ (mt_ptr = NULL /\ mt_ptr' # NULL) =>
                \E t \in Threads : pc[t] = "lock" /\ pc'[t] = "set_size"
          /\ (mt_ptr # NULL /\ mt_ptr' # mt_ptr) => (Quiescent /\ mt_ptr' = NULL)
          /\ \A t \in Threads :
                (pc[t] \in {"check", "lock", "set_size", "pull_cas"} /\ pc'[t] = "idle"
                    /\ held' # held) =>
                    /\ mt_ptr # NULL
                    /\ mt_ptr' = mt_ptr]_vars

\* C33, two threads in their first allocate: one has acquired the buffer and
\* holds the mutex, the other has seen no buffer and waits for the mutex
C33_Witness ==
    \E t, u \in Threads :
        /\ t # u
        /\ pc[t] = "set_size" /\ mt_allocMutex = t
        /\ pc[u] = "lock"
        /\ mt_ptr # NULL
        /\ mt_usedCapacity = 2

\* C34: at quiescence of the ArrayArenaMT, no deallocate having been made with
\* deletion off since the last reset, the slots handed out so far are the free
\* list and the handles callers hold: usedCapacity is the length of the chain
\* from the head (the pushes less the pops) plus the number of outstanding
\* handles, and the chain holds no handle twice
C34_QuiescentAccounting ==
    (Quiescent /\ mt_doDelete /\ mt_abandoned = {}) =>
        /\ Cardinality(FreeSetMT) = Len(FreeListMT)
        /\ mt_usedCapacity = Len(FreeListMT)
              + Cardinality({<<i, k>> \in (1 .. MaxCapacity) \X (1 .. 2) : k <= held[i]})

C36_StampDiscipline ==
    [][/\ \A t \in Threads :
             (InCas(t) /\ pc'[t] = "idle") => toStamp(mt_head') = toStamp(mt_head) + 1
       /\ (mt_head' # mt_head) =>
             \/ \E t \in Threads : InCas(t) /\ pc'[t] = "idle" /\ mt_head = headD[t]
             \/ Quiescent /\ mt_head' = 0
       /\ (toStamp(mt_head') <= toStamp(mt_head) /\ mt_head' # mt_head) =>
             (Quiescent /\ mt_head' = 0)]_vars

\* C37: the assertion of getElementInt, index > 0 and index <= m_usedCapacity,
\* holds for every handle a caller holds and for every handle of the free list,
\* in both arenas; in the ArrayArenaMT also for the handles whose slots pull and
\* push dereference, whatever the other threads are doing
C37_LiveHandlesValid ==
    /\ \A h \in outstanding \cup FreeSet : getElementIntAssert(h)
    /\ \A i \in 1 .. MaxCapacity : held[i] > 0 => i <= mt_usedCapacity
    /\ \A h \in FreeSetMT : h > 0 /\ h <= mt_usedCapacity
    /\ \A t \in Threads :
          /\ pc[t] = "pull_cas" => (toIndex(headD[t]) > 0 /\ toIndex(headD[t]) <= mt_usedCapacity)
          /\ pc[t] = "push_cas" => (free[t] > 0 /\ free[t] <= mt_usedCapacity)

\* C38: the counters of the ArrayArena, deallocate being called for outstanding
\* handles only: allocatedCount <= usedCapacity <= capacity, allocatedCount is
\* the number of outstanding handles, and as long as no handle has been
\* deallocated with deletion off since the last reset, allocatedCount plus the
\* length of the free list is usedCapacity
C38_Counters ==
    /\ m_allocatedCount <= m_usedCapacity
    /\ m_usedCapacity <= m_capacity
    /\ m_allocatedCount = Cardinality(outstanding)
    /\ (abandoned = {}) => m_allocatedCount + Len(FreeList) = m_usedCapacity

\* C38, one handle is outstanding and two are on the free list
C38_Witness ==
    /\ m_allocatedCount = 1
    /\ Len(FreeList) = 2
    /\ m_usedCapacity = MaxCapacity
    /\ abandoned = {}
    /\ lastCall.op = "deallocate"

\* C39: pointer_to never gives the null index for an address of a registered
\* region: a Pointer made from a live arena slot, a stack address or an address
\* of the container body is not equal to nullptr, and stays so through its
\* conversions; the address stackTop itself gives the handle kOnStackFlag and
\* the address of the container itself gives the handle kContainerFlag
C39_NeverNull ==
    /\ []((pointerOp # "none") =>
            /\ m_index # Pointer_nullptr
            /\ ~Pointer_eq(m_index, Pointer_nullptr)
            /\ (pointerOp = "pointer_to" /\ ref = stackTop) => m_index = kOnStackFlag
            /\ (pointerOp = "pointer_to" /\ ref \in ArenaSlots /\ m_index < kContainerFlag) =>
                  m_index >= 1)
    /\ [][(/\ pointerOp' = "pointer_to"
           /\ (pointerOp # "pointer_to" \/ ref' # ref \/ m_index' # m_index)
           /\ Config = "SingleArenaConfigUniversal"
           /\ ref' = container
           /\ ~(stackTop - ref' >= 0 /\ stackTop - ref' < kMaxStackSize)) =>
              m_index' = kContainerFlag]_vars

\* C39, a Pointer to the object at the stack top and converted since: d = 0
C39_Witness ==
    /\ pointerOp \in {"Pointer<void>", "static_cast"}
    /\ ref = stackTop
    /\ m_index = kOnStackFlag

====
